---- MODULE Spec2Model ----
(***************************************************************************)
(* Change detection between two satellite images of one territory.         *)
(*                                                                         *)
(* The comparison functions of the repository are modelled one action     *)
(* each.  A call is presented by the environment (Request), executed by    *)
(* the function it names, and its outcome consumed by the caller (Return). *)
(* What OpenCV computes from the pixels (means, mask pixel counts,         *)
(* contour areas) is an input of the call; everything the Python code      *)
(* does with those numbers is computed here as the code computes it.       *)
(* Floating point values are exact rationals [n, d].                       *)
(***************************************************************************)
EXTENDS Integers, Sequences, FiniteSets, TLC

VARIABLES pc, call, outcome

vars == <<pc, call, outcome>>

----------------------------------------------------------------------------
(* Rational arithmetic standing for the Python floats.                     *)

RECURSIVE GCD(_, _)
GCD(a, b) == IF b = 0 THEN a ELSE GCD(b, a % b)

Abs(x) == IF x < 0 THEN 0 - x ELSE x

Rat(n, d) ==
    LET g == GCD(Abs(n), d) IN [n |-> n \div g, d |-> d \div g]

RInt(k) == [n |-> k, d |-> 1]

RLt(a, b) == a.n * b.d < b.n * a.d

RLe(a, b) == a.n * b.d <= b.n * a.d

RGt(a, b) == RLt(b, a)

RMul(a, b) == Rat(a.n * b.n, a.d * b.d)

RAdd(a, b) == Rat(a.n * b.d + b.n * a.d, a.d * b.d)

RMin(a, b) == IF RLt(b, a) THEN b ELSE a

RMax(a, b) == IF RLt(a, b) THEN b ELSE a

Min(a, b) == IF b < a THEN b ELSE a

Max(a, b) == IF a < b THEN b ELSE a

(* numpy float64 division: x / 0 is inf (nan for 0 / 0), never an error.   *)
NpDiv(a, b) ==
    IF b = 0
    THEN IF a = 0 THEN [kind |-> "nan"] ELSE [kind |-> "inf"]
    ELSE [kind |-> "fin", v |-> Rat(a, b)]

(* x > t for a numpy float x and a finite threshold t.                     *)
NpGt(x, t) ==
    CASE x.kind = "nan" -> FALSE
      [] x.kind = "inf" -> TRUE
      [] OTHER -> RGt(x.v, t)

NpLt(x, t) ==
    CASE x.kind = "nan" -> FALSE
      [] x.kind = "inf" -> FALSE
      [] OTHER -> RLt(x.v, t)

----------------------------------------------------------------------------
(* Inputs of a call.                                                       *)

\* depth of the halving series of mask pixel counts offered to a call
FracDepth == 8

\* steps per percent of the grid on which the severity scales are examined
PctGrain == 10

\* width and height of the image files
Sizes == {<<100, 100>>, <<120, 80>>, <<9, 9>>}

\* what cv2.imread makes of a path
FileStates == {"ok", "corrupt", "missing"}

\* mean brightness b, mean green g (0..255) and mean saturation s of an image
ReferenceStats == [b |-> 120, g |-> 100, s |-> 40]

ImageStats ==
    { ReferenceStats,
      [b |-> 0,   g |-> 0,   s |-> 0],
      [b |-> 60,  g |-> 100, s |-> 40],
      [b |-> 80,  g |-> 100, s |-> 40],
      [b |-> 120, g |-> 160, s |-> 40],
      [b |-> 120, g |-> 150, s |-> 40],
      [b |-> 120, g |-> 60,  s |-> 40],
      [b |-> 120, g |-> 67,  s |-> 40],
      [b |-> 120, g |-> 100, s |-> 61],
      [b |-> 120, g |-> 100, s |-> 60] }

\* the statistics of the two images of a pair
StatPairs ==
    { q \in ImageStats \X ImageStats :
        q[1] = ReferenceStats \/ q[2] = ReferenceStats \/ q[1] = q[2] }

\* pixel counts a mask of total pixels can hold
MaskCounts(total) == {0} \cup { total \div (2 ^ k) : k \in 0..FracDepth }

\* the step of a comparison in which the environment makes a call fail
Faults == {"none", "seasonal", "fuse", "visualize"}

----------------------------------------------------------------------------
(* GEEClient (gee_client.py): comparison with the seasonal filter.         *)

\* the regions findContours reports, as the set of their areas
RegionAreas(total) == { total \div (2 ^ k) : k \in 0..FracDepth } \ {0}

RegionSets(total) ==
    { R \in SUBSET RegionAreas(total) :
        /\ Cardinality(R) <= 2
        /\ (total \in R => R = {total}) }

RECURSIVE SumSet(_)
SumSet(S) == IF S = {} THEN 0 ELSE LET x == CHOOSE y \in S : TRUE
                                   IN x + SumSet(S \ {x})

brightness_threshold_raised == Rat(2, 1)
brightness_threshold == Rat(15, 10)
green_high_threshold == Rat(15, 10)
green_low_threshold == Rat(67, 100)
saturation_threshold == 20

detect_seasonal_changes(img1, img2, fails) ==
    IF fails
    THEN [is_seasonal |-> FALSE,
          seasonal_reason |-> <<"analysis_error">>,
          brightness_ratio |-> [kind |-> "fin", v |-> RInt(1)],
          green_ratio |-> [kind |-> "fin", v |-> RInt(1)]]
    ELSE
    LET mean_brightness1 == img1.b
        mean_brightness2 == img2.b
        brightness_ratio == NpDiv(Max(mean_brightness1, mean_brightness2),
                                  Min(mean_brightness1, mean_brightness2))
        mean_green1 == img1.g
        mean_green2 == img2.g
        green_ratio == IF mean_green1 > 0 THEN NpDiv(mean_green2, mean_green1)
                       ELSE [kind |-> "fin", v |-> RInt(1)]
        bright == NpGt(brightness_ratio, brightness_threshold)
        green == NpGt(green_ratio, green_high_threshold)
                   \/ NpLt(green_ratio, green_low_threshold)
        saturation_diff == Abs(img1.s - img2.s)
        sat == saturation_diff > saturation_threshold
        seasonal0 == FALSE
        seasonal1 == IF bright THEN TRUE ELSE seasonal0
        seasonal2 == IF green THEN TRUE ELSE seasonal1
        seasonal3 == IF sat THEN TRUE ELSE seasonal2
        reason == (IF bright THEN <<"lighting">> ELSE <<>>)
                    \o (IF green THEN <<"vegetation">> ELSE <<>>)
                    \o (IF sat THEN <<"saturation">> ELSE <<>>)
    IN [is_seasonal |-> seasonal3,
        seasonal_reason |-> reason,
        brightness_ratio |-> brightness_ratio,
        green_ratio |-> green_ratio,
        mean_brightness1 |-> mean_brightness1,
        mean_brightness2 |-> mean_brightness2,
        mean_green1 |-> mean_green1,
        mean_green2 |-> mean_green2]

\* outcome of a helper: a value, or an exception that leaves it
Value(v) == [raised |-> FALSE, v |-> v]
Raise(e) == [raised |-> TRUE, exc |-> e]

normal_min_area_num == 2        \* min_area = (w * h) * 0.0002
seasonal_min_area_num_normal == normal_min_area_num
seasonal_min_area_num == 200    \* min_area = (w * h) * 0.02
min_area_den == 10000

LargeContours(regions, total, num) ==
    { a \in regions : a * min_area_den > total * num }

compare_normal_changes(regions, w, h) ==
    LET large_contours == LargeContours(regions, w * h, normal_min_area_num)
        changed_pixels == SumSet(large_contours)
        total_pixels == w * h
        change_percentage == Rat(changed_pixels * 100, total_pixels)
    IN Value([change_percentage |-> change_percentage,
              contours |-> large_contours,
              changed_pixels |-> changed_pixels])

compare_seasonal_changes(regions, w, h, seasonal_data) ==
    IF /\ NpGt(seasonal_data.brightness_ratio, Rat(12, 10))
       /\ seasonal_data.mean_brightness2 = 0
    THEN Raise("ZeroDivisionError")
    ELSE
    LET structural_changes == LargeContours(regions, w * h, seasonal_min_area_num)
        changed_pixels == SumSet(structural_changes)
        total_pixels == w * h
        change_percentage == Rat(changed_pixels * 100, total_pixels)
    IN Value([change_percentage |-> change_percentage,
              contours |-> structural_changes,
              changed_pixels |-> changed_pixels])

\* change_level on the scale of seasonal pairs
seasonal_level(p) ==
    IF RLt(p, Rat(3, 10)) THEN "otsutstvuyut"
    ELSE IF RLt(p, RInt(1)) THEN "minimalnye"
    ELSE IF RLt(p, RInt(3)) THEN "neznachitelnye"
    ELSE IF RLt(p, RInt(8)) THEN "umerennye"
    ELSE IF RLt(p, RInt(15)) THEN "znachitelnye"
    ELSE "kriticheskie"

\* the scale of non-seasonal pairs without its last branch
normal_level_open(p) ==
    IF RLt(p, Rat(5, 10)) THEN "otsutstvuyut"
    ELSE IF RLt(p, RInt(2)) THEN "minimalnye"
    ELSE IF RLt(p, RInt(5)) THEN "umerennye"
    ELSE IF RLt(p, RInt(10)) THEN "znachitelnye"
    ELSE IF RLt(p, RInt(20)) THEN "kriticheskie"
    ELSE "unassigned"

\* change_level on the scale of non-seasonal pairs
normal_level(p) ==
    IF RLt(p, Rat(5, 10)) THEN "otsutstvuyut"
    ELSE IF RLt(p, RInt(2)) THEN "minimalnye"
    ELSE IF RLt(p, RInt(5)) THEN "umerennye"
    ELSE IF RLt(p, RInt(10)) THEN "znachitelnye"
    ELSE IF RLt(p, RInt(20)) THEN "kriticheskie"
    ELSE "katastroficheskie"

\* the working size taken from the first image alone
min_size_of_first(z1, z2) == z1

\* h = min(img1.shape[0], img2.shape[0]); w = min(img1.shape[1], img2.shape[1])
min_size_of(z1, z2) == <<Min(z1[1], z2[1]), Min(z1[2], z2[2])>>

\* h, w = before.shape[:2]; after = cv2.resize(after, (w, h))
before_size_of(z1, z2) == z1

\* the percentage left as computed
limit_percentage_absent(p) == p

\* min(percentage, 100.0)
limit_percentage(p) == RMin(p, RInt(100))

\* a returned dict or an exception, with the pipeline steps that ran and the
\* size <<w, h>> of the working pair (<<>> before the resize)
Returned(v, steps, working) ==
    [kind |-> "return", value |-> v, steps |-> steps, working |-> working]
Raised(e, steps, working) ==
    [kind |-> "raise", exc |-> e, steps |-> steps, working |-> working]

\* an outcome of compare_images_advanced, with the seasonal assessment it made
Assessed(out, seasonal_data) ==
    [kind |-> out.kind, value |-> out.value, steps |-> out.steps,
     working |-> out.working, seasonal_data |-> seasonal_data]

compare_images_advanced(c) ==
    IF ~c.cv2
    THEN Returned([error |-> "opencv_missing"], <<>>, <<>>)
    ELSE IF c.file1 = "missing" \/ c.file2 = "missing"
    THEN Returned([error |-> "files_missing"], <<>>, <<>>)
    ELSE IF c.file1 # "ok" \/ c.file2 # "ok"
    THEN Returned([error |-> "load_failed"], <<"load">>, <<>>)
    ELSE
    LET h == min_size_of(c.size1, c.size2)[2]
        w == min_size_of(c.size1, c.size2)[1]
        seasonal_data == detect_seasonal_changes(c.stats1, c.stats2,
                                                 c.fault = "seasonal")
        s1 == <<"load", "assess">>
    IN  IF "mean_brightness1" \notin DOMAIN seasonal_data
        THEN Assessed(Returned([error |-> "comparison_error"], s1, <<w, h>>),
                      seasonal_data)
        ELSE
        LET is_seasonal == seasonal_data.is_seasonal
            cmp == IF c.fault = "fuse" THEN Raise("cv2.error")
                   ELSE IF is_seasonal
                   THEN compare_seasonal_changes(c.regions, w, h, seasonal_data)
                   ELSE compare_normal_changes(c.regions, w, h)
            s2 == s1 \o <<IF is_seasonal THEN "fuse_seasonal" ELSE "fuse_normal">>
        IN  IF cmp.raised
            THEN Assessed(Returned([error |-> "comparison_error"], s2, <<w, h>>),
                          seasonal_data)
            ELSE
            LET change_percentage == cmp.v.change_percentage
                total_pixels == w * h
                change_level == IF is_seasonal
                                THEN seasonal_level(change_percentage)
                                ELSE normal_level(change_percentage)
                s3 == s2 \o <<"classify", "visualize">>
            IN  IF c.fault = "visualize"
                THEN Assessed(Returned([error |-> "comparison_error"], s3,
                                       <<w, h>>), seasonal_data)
                ELSE Assessed(Returned(
                    [changed_pixels |-> cmp.v.changed_pixels,
                     total_pixels |-> total_pixels,
                     change_percentage |-> change_percentage,
                     change_level |-> change_level,
                     significance |-> <<is_seasonal, change_level>>,
                     contours_count |-> Cardinality(cmp.v.contours),
                     is_seasonal |-> is_seasonal,
                     seasonal_reason |-> IF is_seasonal
                                         THEN seasonal_data.seasonal_reason
                                         ELSE <<>>,
                     brightness_ratio |-> seasonal_data.brightness_ratio,
                     green_ratio |-> seasonal_data.green_ratio,
                     image_dimensions |-> [width |-> w, height |-> h]],
                    s3, <<w, h>>), seasonal_data)

compare_images(c) == compare_images_advanced(c)

\* the pair of sizes on which the statistics and the faults are varied
MixedSizes == <<<<100, 100>>, <<120, 80>>>>

\* the calls of compare_images_advanced the environment can present
RequestGee ==
    \/ call' = [fn |-> "compare_images_advanced", cv2 |-> FALSE]
    \/ \E f \in (FileStates \X FileStates) \ {<<"ok", "ok">>} :
          call' = [fn |-> "compare_images_advanced", cv2 |-> TRUE,
                   file1 |-> f[1], file2 |-> f[2]]
    \/ \E z1 \in Sizes, z2 \in Sizes :
          \E R \in RegionSets(Min(z1[1], z2[1]) * Min(z1[2], z2[2])) :
            call' = [fn |-> "compare_images_advanced", cv2 |-> TRUE,
                     file1 |-> "ok", file2 |-> "ok",
                     size1 |-> z1, size2 |-> z2,
                     stats1 |-> ReferenceStats, stats2 |-> ReferenceStats,
                     regions |-> R, fault |-> "none"]
    \/ \E st \in StatPairs, ft \in Faults :
          \E R \in RegionSets(100 * 80) :
            /\ (ft # "none" => Cardinality(R) <= 1)
            /\ call' = [fn |-> "compare_images_advanced", cv2 |-> TRUE,
                        file1 |-> "ok", file2 |-> "ok",
                        size1 |-> MixedSizes[1], size2 |-> MixedSizes[2],
                        stats1 |-> st[1], stats2 |-> st[2],
                        regions |-> R, fault |-> ft]

----------------------------------------------------------------------------
(* ImageProcessor.detect_changes (image_processor.py).                     *)

resize_width == 640
resize_height == 480
noise_pixels == 50

\* mean colour <<blue, green, red>> of the changed area
MeanColours ==
    { <<50, 120, 50>>, <<120, 50, 50>>, <<50, 110, 160>>,
      <<100, 100, 100>>, <<50, 70, 50>> }

simple_analyze_changes(mean_val, fails) ==
    IF fails THEN "unknown_change"
    ELSE
    LET blue == mean_val[1]
        green == mean_val[2]
        red == mean_val[3]
    IN  IF green > blue + 20 /\ green > red + 20 THEN "vegetation_change"
        ELSE IF blue > green + 15 /\ blue > red + 15 THEN "water_change"
        ELSE IF red > 150 /\ green > 100 THEN "construction"
        ELSE "building_change"

\* an error result that keeps a change type of its own
error_result_typed(error_msg) ==
    [change_score |-> RInt(0),
     change_type |-> "unknown_change",
     confidence |-> RInt(0),
     details |-> [error |-> error_msg],
     result_image_path |-> "None",
     status |-> "error"]

error_result(error_msg) ==
    [change_score |-> RInt(0),
     change_type |-> "error",
     confidence |-> RInt(0),
     details |-> [error |-> error_msg],
     result_image_path |-> "None",
     status |-> "error"]

\* round(x, 2) of a non-negative rational, ties to the even neighbour
Round2(x) ==
    LET num == x.n * 100
        q == num \div x.d
        r == num % x.d
        up == 2 * r > x.d \/ (2 * r = x.d /\ q % 2 = 1)
    IN Rat(IF up THEN q + 1 ELSE q, 100)

detect_changes(c) ==
    IF c.file1 = "missing" \/ c.file2 = "missing"
    THEN Returned(error_result("files_missing"), <<>>, <<>>)
    ELSE IF c.file1 # "ok" \/ c.file2 # "ok"
    THEN Returned(error_result("load_failed"), <<"load">>, <<>>)
    ELSE IF c.fault = "fuse"
    THEN Returned(error_result("exception"), <<"load", "fuse">>,
                  <<resize_width, resize_height>>)
    ELSE
    LET changed_pixels == c.changed
        total_pixels == resize_width * resize_height
        change_score == Rat(changed_pixels, total_pixels)
        few == changed_pixels < noise_pixels
        change_type == IF few THEN "no_changes"
                       ELSE simple_analyze_changes(c.colour, c.fault = "classify")
        result_path == IF c.fault = "visualize" THEN "None"
                       ELSE IF few THEN "no_changes_image" ELSE "changes_image"
        confidence == IF few THEN RInt(0)
                      ELSE RMin(RMul(change_score, RInt(10)), Rat(95, 100))
    IN Returned(
         [change_score |-> change_score,
          change_type |-> change_type,
          confidence |-> confidence,
          details |-> [changed_pixels |-> changed_pixels,
                       total_pixels |-> total_pixels,
                       change_percent |-> Round2(RMul(change_score, RInt(100))),
                       status |-> IF changed_pixels >= noise_pixels
                                  THEN "changes_detected" ELSE "no_changes"],
          result_image_path |-> result_path,
          status |-> "completed"],
         <<"load", "fuse", "classify", "visualize">>,
         <<resize_width, resize_height>>)

\* cv2.threshold(diff, 25, 255, THRESH_BINARY) of a difference that is zero
\* everywhere marks no pixel, and the opening and closing keep it empty
flat_thresh(total) == 0

RequestImageProcessor ==
    \/ \E f \in (FileStates \X FileStates) \ {<<"ok", "ok">>} :
          call' = [fn |-> "detect_changes", file1 |-> f[1], file2 |-> f[2]]
    \/ \E z1 \in Sizes, z2 \in Sizes,
          ft \in {"none", "fuse", "classify", "visualize"} :
          call' = [fn |-> "detect_changes", file1 |-> "ok", file2 |-> "ok",
                   size1 |-> z1, size2 |-> z2,
                   changed |-> (resize_width * resize_height) \div 4,
                   colour |-> <<50, 120, 50>>, fault |-> ft]
    \/ \E col \in MeanColours,
          ch \in MaskCounts(resize_width * resize_height)
                   \cup {noise_pixels - 1, noise_pixels} :
          call' = [fn |-> "detect_changes", file1 |-> "ok", file2 |-> "ok",
                   size1 |-> MixedSizes[1], size2 |-> MixedSizes[2],
                   changed |-> ch, colour |-> col, fault |-> "none"]
    \/ \E z \in Sizes, col \in MeanColours :
          call' = [fn |-> "detect_changes", file1 |-> "ok", file2 |-> "ok",
                   size1 |-> z, size2 |-> z,
                   changed |-> flat_thresh(resize_width * resize_height),
                   colour |-> col, fault |-> "none", same |-> TRUE]

----------------------------------------------------------------------------
(* ImprovedChangeDetector.detect_real_changes (improved_change_detector.py) *)

\* pixel counts <<vegetation, earth, texture>> of the three extractor masks,
\* in quarters of the image
ExtractorAreas ==
    { <<0, 0, 0>>, <<2, 1, 1>>, <<1, 2, 1>>, <<1, 1, 2>>, <<2, 2, 1>> }

\* norm of the difference of the mean (H, S) colours; at least |s1 - s2|
ColourDiffs == {21, 50, 51}

\* standard deviation of the change density of the four quadrants, in 1/100
DensityStds == {4, 5}

\* the significance scale with its lowest threshold at 2 instead of 1
improved_significance_shifted(change_percentage) ==
    IF RGt(change_percentage, RInt(30)) THEN "kriticheskie"
    ELSE IF RGt(change_percentage, RInt(15)) THEN "znachitelnye"
    ELSE IF RGt(change_percentage, RInt(5)) THEN "umerennye"
    ELSE IF RGt(change_percentage, RInt(2)) THEN "neznachitelnye"
    ELSE "otsutstvuyut"

\* significance of a pair that is not seasonal
improved_significance(change_percentage) ==
    IF RGt(change_percentage, RInt(30)) THEN "kriticheskie"
    ELSE IF RGt(change_percentage, RInt(15)) THEN "znachitelnye"
    ELSE IF RGt(change_percentage, RInt(5)) THEN "umerennye"
    ELSE IF RGt(change_percentage, RInt(1)) THEN "neznachitelnye"
    ELSE "otsutstvuyut"

detect_real_changes(c) ==
    IF c.file1 # "ok" \/ c.file2 # "ok"
    THEN Returned([error |-> "load_failed"], <<"load">>, <<>>)
    ELSE
    LET h == min_size_of(c.size1, c.size2)[2]
        w == min_size_of(c.size1, c.size2)[1]
        quarter == (w * h) \div 4
        veg_changes_clean == c.areas[1] * quarter
        earth_changes_clean == c.areas[2] * quarter
        texture_thresh == c.areas[3] * quarter
        color_diff == c.colour_diff
        changed_pixels == c.changed
        total_pixels == w * h
        change_density == Rat(changed_pixels, total_pixels)
        densities_std == Rat(c.density_std, 100)
        is_seasonal ==
            IF color_diff > 50 /\ RGt(change_density, Rat(3, 10))
            THEN IF RLt(densities_std, Rat(5, 100)) THEN TRUE ELSE FALSE
            ELSE FALSE
        change_percentage == Rat(changed_pixels * 100, total_pixels)
        change_type ==
            IF veg_changes_clean > texture_thresh
                 /\ veg_changes_clean > earth_changes_clean
            THEN "rastitelnost"
            ELSE IF earth_changes_clean > texture_thresh
                      /\ earth_changes_clean > veg_changes_clean
            THEN "zemlyanye_raboty"
            ELSE IF texture_thresh > veg_changes_clean
                      /\ texture_thresh > earth_changes_clean
            THEN "strukturnye"
            ELSE "neizvestno"
        significance ==
            IF is_seasonal THEN "sezonnye"
            ELSE improved_significance(change_percentage)
        real_change_percentage ==
            IF is_seasonal THEN RMul(change_percentage, Rat(1, 10))
            ELSE change_percentage
        steps == <<"load", "fuse", "assess", "classify", "visualize">>
    IN  IF c.fault # "none"
        THEN Raised("cv2.error",
                    IF c.fault = "fuse" THEN <<"load", "fuse">> ELSE steps,
                    <<w, h>>)
        ELSE Returned(
            [success |-> TRUE,
             total_pixels |-> total_pixels,
             changed_pixels |-> changed_pixels,
             change_percentage |-> change_percentage,
             real_change_percentage |-> real_change_percentage,
             change_type |-> change_type,
             significance |-> significance,
             is_seasonal |-> is_seasonal,
             details |-> [texture_changes |-> texture_thresh,
                          vegetation_changes |-> veg_changes_clean,
                          earth_changes |-> earth_changes_clean,
                          color_difference |-> color_diff,
                          change_density |-> change_density]],
            steps, <<w, h>>)

detect_changes_improved(c) == detect_real_changes(c)

RequestImproved ==
    \/ \E f \in (FileStates \X FileStates) \ {<<"ok", "ok">>} :
          call' = [fn |-> "detect_real_changes", file1 |-> f[1], file2 |-> f[2]]
    \/ \E z1 \in Sizes, z2 \in Sizes, ar \in ExtractorAreas,
          ft \in {"none", "fuse", "visualize"} :
          \E ch \in {0, (Min(z1[1], z2[1]) * Min(z1[2], z2[2])) \div 4} :
            /\ (ar = <<0, 0, 0>> <=> ch = 0)
            /\ call' = [fn |-> "detect_real_changes",
                        file1 |-> "ok", file2 |-> "ok",
                        size1 |-> z1, size2 |-> z2,
                        stats1 |-> ReferenceStats, stats2 |-> ReferenceStats,
                        changed |-> ch, areas |-> ar, colour_diff |-> 21,
                        density_std |-> 5, fault |-> ft]
    \/ \E st2 \in ImageStats, cd \in ColourDiffs, sd \in DensityStds :
          \E ch \in MaskCounts(100 * 80) :
            /\ cd >= Abs(ReferenceStats.s - st2.s)
            /\ call' = [fn |-> "detect_real_changes",
                        file1 |-> "ok", file2 |-> "ok",
                        size1 |-> MixedSizes[1], size2 |-> MixedSizes[2],
                        stats1 |-> ReferenceStats, stats2 |-> st2,
                        changed |-> ch,
                        areas |-> IF ch = 0 THEN <<0, 0, 0>> ELSE <<2, 1, 1>>,
                        colour_diff |-> cd, density_std |-> sd,
                        fault |-> "none"]

----------------------------------------------------------------------------
(* UltimateDetector.detect_with_force (ultimate_detector.py).              *)

grid_size == 16
MIN_DEFORESTATION == 40

\* force_percentage: the constructor's default and detect_forest_changes'
ForcePercentages == {60, 80}

calculate_grid_percentage(changed_cells, total_cells) ==
    IF total_cells > 0 THEN Rat(changed_cells * 100, total_cells) ELSE RInt(0)

ultimate_type(forced_percent) ==
    IF RGt(forced_percent, RInt(60)) THEN "KATASTROFICHESKAYA_VYRUBKA_LESA"
    ELSE IF RGt(forced_percent, RInt(40)) THEN "MASSHTABNAYA_VYRUBKA_LESA"
    ELSE IF RGt(forced_percent, RInt(25)) THEN "ZNACHITELNAYA_VYRUBKA_LESA"
    ELSE IF RGt(forced_percent, RInt(15)) THEN "CHASTICHNAYA_VYRUBKA"
    ELSE "NEZNACHITELNYE_IZMENENIYA"

ultimate_level(forced_percent) ==
    IF RGt(forced_percent, RInt(60)) THEN "KRITICHESKIY"
    ELSE IF RGt(forced_percent, RInt(40)) THEN "OCHEN_VYSOKIY"
    ELSE IF RGt(forced_percent, RInt(25)) THEN "VYSOKIY"
    ELSE IF RGt(forced_percent, RInt(15)) THEN "SREDNIY"
    ELSE "NIZKIY"

ultimate_significance(forced_percent) ==
    IF RGt(forced_percent, RInt(60)) THEN "TREBUET_NEMEDLENNOGO_VMESHATELSTVA"
    ELSE IF RGt(forced_percent, RInt(40)) THEN "SEREZNAYA_UGROZA_EKOLOGII"
    ELSE IF RGt(forced_percent, RInt(25)) THEN "TREBUET_PROVERKI"
    ELSE IF RGt(forced_percent, RInt(15)) THEN "ZAMETNYE_IZMENENIYA"
    ELSE "V_PREDELAKH_NORMY"

detect_with_force(c, force_percentage) ==
    IF c.file1 # "ok" \/ c.file2 # "ok"
    THEN Returned([error |-> "load_failed"], <<"load">>, <<>>)
    ELSE
    LET w == before_size_of(c.size1, c.size2)[1]
        h == before_size_of(c.size1, c.size2)[2]
        total_cells == (w \div grid_size) * (h \div grid_size)
        total_pixels == w * h
        base_changed == c.changed
        base_percent == Rat(base_changed * 100, total_pixels)
        forced1 == IF RLt(RInt(5), base_percent) /\ RLt(base_percent, RInt(30))
                   THEN RInt(force_percentage)
                   ELSE base_percent
        grid_percent == calculate_grid_percentage(c.changed_cells, total_cells)
        forced2 == IF RGt(grid_percent, base_percent)
                   THEN RMax(forced1, grid_percent) ELSE forced1
        forced3 == IF RLt(forced2, RInt(MIN_DEFORESTATION))
                        /\ RGt(base_percent, RInt(10))
                   THEN RInt(MIN_DEFORESTATION) ELSE forced2
        forced_percent == limit_percentage(forced3)
        change_level == ultimate_level(forced_percent)
        steps == <<"load", "fuse", "classify", "visualize">>
    IN  IF c.fault # "none"
        THEN Raised("cv2.error",
                    IF c.fault = "fuse" THEN <<"load", "fuse">> ELSE steps,
                    <<w, h>>)
        ELSE Returned(
            [success |-> TRUE,
             change_percentage |-> forced_percent,
             base_percentage |-> base_percent,
             change_type |-> ultimate_type(forced_percent),
             change_level |-> change_level,
             significance |-> ultimate_significance(forced_percent),
             is_seasonal |-> FALSE,
             changed_pixels |-> base_changed,
             total_pixels |-> total_pixels,
             forced_detection |-> TRUE],
            steps, <<w, h>>)

detect_changes_ultimate(c, force_percentage) ==
    detect_with_force(c, force_percentage)

detect_forest_changes(c) == detect_changes_ultimate(c, 80)

GridCells(z) == (z[1] \div grid_size) * (z[2] \div grid_size)

RequestUltimate ==
    \/ \E f \in (FileStates \X FileStates) \ {<<"ok", "ok">>},
          fp \in ForcePercentages :
          call' = [fn |-> "detect_with_force", file1 |-> f[1], file2 |-> f[2],
                   force_percentage |-> fp]
    \/ \E z1 \in Sizes, z2 \in Sizes, fp \in ForcePercentages,
          ft \in {"none", "fuse", "visualize"} :
          \E ch \in MaskCounts(z1[1] * z1[2]),
             cells \in {0, GridCells(z1) \div 4, GridCells(z1)} :
            call' = [fn |-> "detect_with_force",
                     file1 |-> "ok", file2 |-> "ok",
                     size1 |-> z1, size2 |-> z2,
                     changed |-> ch, changed_cells |-> cells,
                     force_percentage |-> fp, fault |-> ft]

----------------------------------------------------------------------------
(* SuperForestDetector.detect_changes_aggressive (super_forest_detector.py) *)

min_size == 100

\* sensitivity: the values the module constructs its detector with
Sensitivities == {Rat(1, 1), Rat(3, 2), Rat(2, 1)}

\* green_change.sum() / green_before.sum()
GreenChangeRatios == {Rat(0, 1), Rat(1, 10), Rat(1, 2), Rat(2, 1)}

\* |entropy_before - entropy_after|
EntropyChanges == {Rat(0, 1), Rat(1, 2), Rat(1, 1)}

super_type(green_change_ratio, final_percentage) ==
    IF RGt(green_change_ratio, Rat(3, 10)) /\ RGt(final_percentage, RInt(20))
    THEN "MASSHTABNAYA_VYRUBKA_LESA"
    ELSE IF RGt(green_change_ratio, Rat(2, 10)) /\ RGt(final_percentage, RInt(15))
    THEN "znachitelnaya_vyrubka_lesa"
    ELSE IF RGt(green_change_ratio, Rat(1, 10)) /\ RGt(final_percentage, RInt(10))
    THEN "vyrubka_lesa"
    ELSE IF RGt(green_change_ratio, Rat(5, 100)) /\ RGt(final_percentage, RInt(5))
    THEN "chastichnaya_vyrubka"
    ELSE IF RGt(final_percentage, RInt(3)) THEN "izmeneniya_rastitelnosti"
    ELSE "minimalnye_izmeneniya"

super_level(final_percentage) ==
    IF RGt(final_percentage, RInt(40)) THEN "KATASTROFICHESKIY"
    ELSE IF RGt(final_percentage, RInt(25)) THEN "KRITICHESKIY"
    ELSE IF RGt(final_percentage, RInt(15)) THEN "VYSOKIY"
    ELSE IF RGt(final_percentage, RInt(8)) THEN "SREDNIY"
    ELSE IF RGt(final_percentage, RInt(3)) THEN "NIZKIY"
    ELSE "MINIMALNYY"

detect_changes_aggressive(c, sensitivity) ==
    IF c.file1 # "ok" \/ c.file2 # "ok"
    THEN Returned([error |-> "load_failed"], <<"load">>, <<>>)
    ELSE
    LET w == before_size_of(c.size1, c.size2)[1]
        h == before_size_of(c.size1, c.size2)[2]
        total_pixels == w * h
        changed_pixels == c.changed
        base_percentage == Rat(changed_pixels * 100, total_pixels)
        contours == changed_pixels > 0
        max_area == c.max_area
        is_deforestation == contours /\ max_area * 100 > total_pixels
        enhancement_factor ==
            IF is_deforestation
            THEN RAdd(RInt(1), Rat(max_area * 10, total_pixels))
            ELSE RInt(1)
        green_change_ratio == c.green_change_ratio
        entropy_change == c.entropy_change
        final0 == base_percentage
        final1 == IF RGt(green_change_ratio, Rat(1, 10))
                  THEN RMul(final0, RAdd(RInt(1), RMul(green_change_ratio, RInt(2))))
                  ELSE final0
        final2 == IF is_deforestation THEN RMul(final1, enhancement_factor)
                  ELSE final1
        final3 == IF RGt(entropy_change, Rat(5, 10))
                  THEN RMul(final2, RAdd(RInt(1), entropy_change))
                  ELSE final2
        final4 == RMul(final3, sensitivity)
        final_percentage == limit_percentage(final4)
        steps == <<"load", "fuse", "classify", "visualize">>
    IN  IF c.fault # "none"
        THEN Raised("cv2.error",
                    IF c.fault = "fuse" THEN <<"load", "fuse">> ELSE steps,
                    <<w, h>>)
        ELSE IF ~contours
        THEN Raised("UnboundLocalError", steps, <<w, h>>)
        ELSE Returned(
            [success |-> TRUE,
             change_type |-> super_type(green_change_ratio, final_percentage),
             change_level |-> super_level(final_percentage),
             base_percentage |-> base_percentage,
             final_percentage |-> final_percentage,
             enhancement_factor |-> enhancement_factor,
             green_change_ratio |-> green_change_ratio,
             entropy_change |-> entropy_change,
             changed_pixels |-> changed_pixels,
             total_pixels |-> total_pixels,
             statistics |-> [max_contour_area |-> max_area,
                             is_deforestation |-> is_deforestation,
                             sensitivity_used |-> sensitivity]],
            steps, <<w, h>>)

detect_changes_super_aggressive(c, sensitivity) ==
    detect_changes_aggressive(c, sensitivity)

\* cv2.adaptiveThreshold(combined_8bit, 255, GAUSSIAN_C, THRESH_BINARY, 11, 2)
\* of a difference map that is zero everywhere: each pixel is compared with
\* its neighbourhood mean minus 2, so every pixel of the image is marked
flat_thresh_mask(size) == size[1] * size[2]

\* _remove_small_objects: a connected component under min_size is erased
remove_small_objects(component) ==
    IF component < min_size THEN 0 ELSE component

\* cv2.contourArea of the outline of a mask that fills the image
full_contour_area(size) == (size[1] - 1) * (size[2] - 1)

\* mask pixel counts that survive _remove_small_objects
SuperCounts(total) ==
    IF total < min_size THEN {0}
    ELSE { n \in MaskCounts(total) : n >= min_size }

RequestSuper ==
    \/ \E f \in (FileStates \X FileStates) \ {<<"ok", "ok">>},
          se \in Sensitivities :
          call' = [fn |-> "detect_changes_aggressive",
                   file1 |-> f[1], file2 |-> f[2], sensitivity |-> se]
    \/ \E z1 \in Sizes, z2 \in Sizes, ft \in {"none", "fuse", "visualize"} :
          \E ch \in SuperCounts(z1[1] * z1[2]) :
            call' = [fn |-> "detect_changes_aggressive",
                     file1 |-> "ok", file2 |-> "ok",
                     size1 |-> z1, size2 |-> z2,
                     changed |-> ch, max_area |-> ch,
                     green_change_ratio |-> Rat(1, 10),
                     entropy_change |-> Rat(1, 2),
                     sensitivity |-> Rat(3, 2), fault |-> ft]
    \/ \E se \in Sensitivities, gr \in GreenChangeRatios, en \in EntropyChanges :
          \E ch \in SuperCounts(100 * 100) :
            \E ma \in {ch, ch \div 128} :
              call' = [fn |-> "detect_changes_aggressive",
                       file1 |-> "ok", file2 |-> "ok",
                       size1 |-> MixedSizes[1], size2 |-> MixedSizes[2],
                       changed |-> ch, max_area |-> ma,
                       green_change_ratio |-> gr, entropy_change |-> en,
                       sensitivity |-> se, fault |-> "none"]
    \/ \E z \in Sizes, se \in Sensitivities :
          LET mask == remove_small_objects(flat_thresh_mask(z))
          IN  call' = [fn |-> "detect_changes_aggressive",
                       file1 |-> "ok", file2 |-> "ok",
                       size1 |-> z, size2 |-> z,
                       changed |-> mask,
                       max_area |-> IF mask = 0 THEN 0
                                    ELSE full_contour_area(z),
                       green_change_ratio |-> Rat(0, 1),
                       entropy_change |-> Rat(0, 1),
                       sensitivity |-> se, fault |-> "none",
                       same |-> TRUE]

----------------------------------------------------------------------------
(* ChangeDetector.detect_and_save_changes (change_detector.py).            *)

\* self.email_config after _load_email_config: absent, or its attributes
EmailConfigs ==
    { [present |-> FALSE],
      [present |-> TRUE, EMAIL_ENABLED |-> FALSE],
      [present |-> TRUE, EMAIL_ENABLED |-> FALSE, CHANGE_THRESHOLD |-> RInt(5)],
      [present |-> TRUE, EMAIL_ENABLED |-> TRUE, CHANGE_THRESHOLD |-> RInt(5)],
      [present |-> TRUE, EMAIL_ENABLED |-> TRUE, CHANGE_THRESHOLD |-> RInt(10)] }

\* dict.get(key, default)
Get(d, key, default) == IF key \in DOMAIN d THEN d[key] ELSE default

\* _should_send_notification with "at least" in place of "more than"
should_send_notification_at(email_config, change_percentage) ==
    IF ~email_config.present \/ "CHANGE_THRESHOLD" \notin DOMAIN email_config
    THEN RLe(RInt(5), change_percentage)
    ELSE IF ~email_config.EMAIL_ENABLED
    THEN FALSE
    ELSE RLe(email_config.CHANGE_THRESHOLD, change_percentage)

should_send_notification(email_config, change_percentage) ==
    IF ~email_config.present \/ "CHANGE_THRESHOLD" \notin DOMAIN email_config
    THEN RGt(change_percentage, RInt(5))
    ELSE IF ~email_config.EMAIL_ENABLED
    THEN FALSE
    ELSE RGt(change_percentage, email_config.CHANGE_THRESHOLD)

\* change_level given by detect_and_save_changes when the comparison has none
default_level(change_percentage) ==
    IF RGt(change_percentage, RInt(50)) THEN "kriticheskie"
    ELSE IF RGt(change_percentage, RInt(20)) THEN "vysokie"
    ELSE IF RGt(change_percentage, RInt(10)) THEN "srednie"
    ELSE IF RGt(change_percentage, RInt(5)) THEN "nizkie"
    ELSE "minimalnye"

\* detect_changes_improved(old_image, new_image)
ImprovedCall(c) ==
    [file1 |-> c.old_file, file2 |-> c.new_file,
     size1 |-> c.old_size, size2 |-> c.new_size,
     stats1 |-> c.old_stats, stats2 |-> c.new_stats,
     changed |-> c.improved.changed, areas |-> c.improved.areas,
     colour_diff |-> c.improved.colour_diff,
     density_std |-> c.improved.density_std, fault |-> c.improved.fault]

\* detect_forest_changes(old_image, new_image)
UltimateCall(c) ==
    [file1 |-> c.old_file,
     file2 |-> IF c.ultimate.reread = "ok" THEN c.new_file ELSE "corrupt",
     size1 |-> c.old_size, size2 |-> c.new_size,
     changed |-> c.ultimate.changed, changed_cells |-> c.ultimate.changed_cells,
     fault |-> c.ultimate.fault]

\* self.gee.compare_images(new_image, old_image)
FallbackCall(c) ==
    [cv2 |-> TRUE, file1 |-> c.new_file, file2 |-> c.old_file,
     size1 |-> c.new_size, size2 |-> c.old_size,
     stats1 |-> c.new_stats, stats2 |-> c.old_stats,
     regions |-> c.gee.regions, fault |-> c.gee.fault]

\* the None that detect_and_save_changes returns when it saves nothing
NoneValue == [none |-> TRUE]

\* outcome of detect_and_save_changes: the value or exception, the steps of
\* every comparison it ran, the comparison functions it called, and its
\* writes to the database and the notifier
Saved(kind, v, runs, effects) ==
    [kind |-> kind, value |-> v, runs |-> runs, effects |-> effects]

\* a test of the comparison that lets every result pass
comparison_failed_never(comparison) == FALSE

\* line 124: 'error' in comparison or not comparison.get('success', False)
comparison_failed(comparison) ==
    "error" \in DOMAIN comparison \/ ~Get(comparison, "success", FALSE)

\* lines 124-182: the comparison is dropped, or saved and notified
save_comparison(c, runs, comparison) ==
    IF comparison_failed(comparison)
    THEN Saved("return", NoneValue, runs, <<>>)
    ELSE
    LET change_percentage == Get(comparison, "change_percentage", RInt(0))
        change_level == Get(comparison, "change_level",
                            default_level(change_percentage))
        significance == Get(comparison, "significance", change_level)
        notify == c.send_notification
                    /\ should_send_notification(c.email_config, change_percentage)
        effects ==
            <<[op |-> "add_change", old_image |-> "old", new_image |-> "new",
               change_percentage |-> change_percentage]>>
            \o (IF notify
                THEN <<[op |-> "send_notification",
                        change_percentage |-> change_percentage]>>
                ELSE <<>>)
    IN Saved("return",
             [change_id |-> 1,
              change_percentage |-> change_percentage,
              change_level |-> change_level,
              significance |-> significance],
             runs, effects)

\* lines 99-106: the fallback to self.gee.compare_images
compare_fallback(c, runs, third) ==
    save_comparison(c,
                    runs \o <<[fn |-> "compare_images", steps |-> third.steps]>>,
                    third.value)

\* lines 93-121: the try block around detect_forest_changes
compare_forest(c, run1, second) ==
    IF second.kind = "raise"
    THEN save_comparison(c,
             run1 \o <<[fn |-> "detect_forest_changes", steps |-> second.steps]>>,
             [success |-> FALSE, error |-> second.exc])
    ELSE IF ~Get(second.value, "success", FALSE)
    THEN compare_fallback(c,
             run1 \o <<[fn |-> "detect_forest_changes", steps |-> second.steps]>>,
             compare_images(FallbackCall(c)))
    ELSE save_comparison(c,
             run1 \o <<[fn |-> "detect_forest_changes", steps |-> second.steps]>>,
             second.value)

\* lines 85-92: detect_changes_improved, called outside the try block
compare_improved(c, first) ==
    IF first.kind = "raise"
    THEN Saved("raise", first.exc,
               <<[fn |-> "detect_changes_improved", steps |-> first.steps]>>,
               <<>>)
    ELSE IF "error" \in DOMAIN first.value
    THEN Saved("return", NoneValue,
               <<[fn |-> "detect_changes_improved", steps |-> first.steps]>>,
               <<>>)
    ELSE compare_forest(c,
             <<[fn |-> "detect_changes_improved", steps |-> first.steps]>>,
             detect_forest_changes(UltimateCall(c)))

detect_and_save_changes(c) ==
    IF c.images < 2
    THEN Saved("return", NoneValue, <<>>, <<>>)
    ELSE IF c.new_file = "missing" \/ c.old_file = "missing"
    THEN Saved("return", NoneValue, <<>>, <<>>)
    ELSE compare_improved(c, detect_changes_improved(ImprovedCall(c)))

\* the pixel counts of detect_forest_changes' mask: 0, 3.125, 5, 6.25 and 50 %
ForestCounts(z) ==
    {0, (z[1] * z[2]) \div 32, (z[1] * z[2]) \div 20, (z[1] * z[2]) \div 16,
     (z[1] * z[2]) \div 2}

\* a call for a territory with two readable images, nothing failing
SavedCall(zo, zn, stn, ich, uch, R, sn, ec) ==
    [fn |-> "detect_and_save_changes", images |-> 2,
     old_file |-> "ok", new_file |-> "ok",
     old_size |-> zo, new_size |-> zn,
     old_stats |-> ReferenceStats, new_stats |-> stn,
     improved |-> [changed |-> ich,
                   areas |-> IF ich = 0 THEN <<0, 0, 0>> ELSE <<2, 1, 1>>,
                   colour_diff |-> Max(21, Abs(ReferenceStats.s - stn.s)),
                   density_std |-> 5, fault |-> "none"],
     ultimate |-> [reread |-> "ok", changed |-> uch,
                   changed_cells |-> 0, fault |-> "none"],
     gee |-> [regions |-> R, fault |-> "none"],
     send_notification |-> sn, email_config |-> ec]

RequestDetectAndSave ==
    \/ \E n \in 0..1 :
          call' = [fn |-> "detect_and_save_changes", images |-> n]
    \/ \E f \in (FileStates \X FileStates) \ {<<"ok", "ok">>} :
          call' = [SavedCall(<<100, 100>>, <<100, 100>>, ReferenceStats, 0, 0,
                             {}, TRUE, [present |-> FALSE])
                   EXCEPT !.old_file = f[1], !.new_file = f[2]]
    \/ \E zo \in {<<100, 100>>, <<120, 80>>}, zn \in {<<100, 100>>, <<120, 80>>},
          stn \in {ReferenceStats, [b |-> 60, g |-> 100, s |-> 40],
                   [b |-> 0, g |-> 0, s |-> 0]} :
          \E ich \in {0, (Min(zo[1], zn[1]) * Min(zo[2], zn[2])) \div 4},
             uch \in ForestCounts(zo) :
            call' = SavedCall(zo, zn, stn, ich, uch, {}, TRUE,
                              [present |-> FALSE])
    \/ \E sn \in BOOLEAN, ec \in EmailConfigs,
          uch \in ForestCounts(<<100, 100>>) :
          call' = SavedCall(<<100, 100>>, <<100, 100>>, ReferenceStats, 2500,
                            uch, {}, sn, ec)
    \/ \E stn \in {ReferenceStats, [b |-> 0, g |-> 0, s |-> 0]},
          imf \in {"none", "visualize"},
          ulr \in {"ok", "corrupt"}, ulf \in {"none", "fuse"},
          gef \in {"none", "visualize"}, R \in {{}, {2500}},
          uch \in {0, 5000} :
          call' = [SavedCall(<<100, 100>>, <<100, 100>>, stn, 2500, uch, R,
                             TRUE, [present |-> FALSE])
                   EXCEPT !.improved.fault = imf,
                          !.ultimate.reread = ulr,
                          !.ultimate.fault = ulf,
                          !.gee.fault = gef]

----------------------------------------------------------------------------
(* SatelliteMonitor.check_location (monitor.py).                           *)

\* Config.CHANGE_THRESHOLD, compared with change_score (a fraction of 1)
CHANGE_THRESHOLD == Rat(5, 100)

\* the random draws of one check: random.random() < 0.4 in check_location
\* and random.random() < 0.7 in add_random_map_changes
RandomDraws == [add_changes : BOOLEAN, draw : BOOLEAN]

\* add_random_map_changes: the path it returns, the picture with test changes
\* drawn on it when the draw succeeds and cv2.imwrite stores it
add_random_map_changes(c) ==
    IF c.file = "ok" /\ c.random.draw /\ c.written
    THEN "changed" ELSE "original"

\* outcome of check_location: the dict it returns, the image it compared
\* with the previous one, and its writes to the database and the notifier
Checked(v, current, effects) ==
    [kind |-> "return", value |-> v, current |-> current, effects |-> effects]

\* lines 84-123: compare the previous image with the current one and
\* save and notify when the score is over the threshold
compare_with_previous(c, current_image_path, saved) ==
    LET change_data ==
            detect_changes(
                [file1 |-> c.previous_file, file2 |-> c.file,
                 size1 |-> c.size, size2 |-> c.size,
                 changed |-> IF current_image_path = "changed"
                             THEN c.changed_drawn ELSE c.changed,
                 colour |-> c.colour, fault |-> "none"]).value
    IN  IF RGt(change_data.change_score, CHANGE_THRESHOLD)
        THEN Checked([changes_detected |-> TRUE,
                      change_score |-> change_data.change_score,
                      change_type |-> change_data.change_type,
                      change_id |-> 1,
                      result_image |-> change_data.result_image_path],
                     current_image_path,
                     saved \o <<[op |-> "save_change_detection",
                                 change_score |-> change_data.change_score],
                                [op |-> "send_change_notification",
                                 change_score |-> change_data.change_score]>>)
        ELSE Checked([changes_detected |-> FALSE,
                      change_score |-> change_data.change_score,
                      change_type |-> change_data.change_type],
                     current_image_path, saved)

check_location(c) ==
    IF c.download = "raises"
    THEN Checked([changes_detected |-> FALSE, error |-> "exception"],
                 "none", <<>>)
    ELSE IF c.download = "failed"
    THEN Checked([changes_detected |-> FALSE, error |-> "Image download failed"],
                 "none", <<>>)
    ELSE
    LET original == <<[op |-> "save_satellite_image", image |-> "original"]>>
    IN  IF ~c.previous
        THEN Checked([changes_detected |-> FALSE, first_image |-> TRUE],
                     "none", original)
        ELSE IF c.random.add_changes /\ add_random_map_changes(c) = "changed"
        THEN compare_with_previous(c, "changed",
                 original \o <<[op |-> "save_satellite_image",
                                image |-> "changed"]>>)
        ELSE compare_with_previous(c, "original", original)

\* changed pixels of the 640x480 working image: 0, 3.125, 5 and 6.25 %
CheckCounts ==
    {0, (resize_width * resize_height) \div 32,
     (resize_width * resize_height) \div 20,
     (resize_width * resize_height) \div 16}

RequestCheckLocation ==
    \/ \E d \in {"failed", "raises"} :
          call' = [fn |-> "check_location", download |-> d]
    \/ call' = [fn |-> "check_location", download |-> "ok",
                previous |-> FALSE]
    \/ \E r \in RandomDraws, wr \in BOOLEAN,
          f \in {"ok", "corrupt"}, pf \in {"ok", "corrupt"},
          ch \in CheckCounts, dr \in CheckCounts, col \in MeanColours :
          /\ dr >= ch
          /\ call' = [fn |-> "check_location", download |-> "ok",
                      previous |-> TRUE, random |-> r, written |-> wr,
                      file |-> f, previous_file |-> pf,
                      size |-> <<resize_width, resize_height>>,
                      changed |-> ch, changed_drawn |-> dr, colour |-> col]

----------------------------------------------------------------------------
(* The calls and their execution.                                          *)

Init ==
    /\ pc = "idle"
    /\ call = [fn |-> "none"]
    /\ outcome = [kind |-> "none"]

Request ==
    /\ pc = "idle"
    /\ \/ RequestGee
       \/ RequestImageProcessor
       \/ RequestImproved
       \/ RequestUltimate
       \/ RequestSuper
       \/ RequestDetectAndSave
       \/ RequestCheckLocation
    /\ pc' = "called"
    /\ UNCHANGED outcome

CompareImagesAdvanced ==
    /\ pc = "called"
    /\ call.fn = "compare_images_advanced"
    /\ outcome' = compare_images_advanced(call)
    /\ pc' = "returned"
    /\ UNCHANGED call

DetectChanges ==
    /\ pc = "called"
    /\ call.fn = "detect_changes"
    /\ outcome' = detect_changes(call)
    /\ pc' = "returned"
    /\ UNCHANGED call

DetectRealChanges ==
    /\ pc = "called"
    /\ call.fn = "detect_real_changes"
    /\ outcome' = detect_real_changes(call)
    /\ pc' = "returned"
    /\ UNCHANGED call

DetectWithForce ==
    /\ pc = "called"
    /\ call.fn = "detect_with_force"
    /\ outcome' = detect_with_force(call, call.force_percentage)
    /\ pc' = "returned"
    /\ UNCHANGED call

DetectChangesAggressive ==
    /\ pc = "called"
    /\ call.fn = "detect_changes_aggressive"
    /\ outcome' = detect_changes_aggressive(call, call.sensitivity)
    /\ pc' = "returned"
    /\ UNCHANGED call

DetectAndSaveChanges ==
    /\ pc = "called"
    /\ call.fn = "detect_and_save_changes"
    /\ outcome' = detect_and_save_changes(call)
    /\ pc' = "returned"
    /\ UNCHANGED call

CheckLocation ==
    /\ pc = "called"
    /\ call.fn = "check_location"
    /\ outcome' = check_location(call)
    /\ pc' = "returned"
    /\ UNCHANGED call

Return ==
    /\ pc = "returned"
    /\ pc' = "idle"
    /\ call' = [fn |-> "none"]
    /\ outcome' = [kind |-> "none"]

Next ==
    \/ Request
    \/ CompareImagesAdvanced
    \/ DetectChanges
    \/ DetectRealChanges
    \/ DetectWithForce
    \/ DetectChangesAggressive
    \/ DetectAndSaveChanges
    \/ CheckLocation
    \/ Return

Spec == Init /\ [][Next]_vars

----------------------------------------------------------------------------
(* The severity scales on their own: the change_level each scale gives to  *)
(* every percentage of a grid over [0, 100].                               *)

\* the scales: compare_images_advanced's two, detect_and_save_changes' default
\* and detect_real_changes' significance
Scales == {"seasonal", "normal", "default", "improved"}

change_level_of(scale, p) ==
    CASE scale = "seasonal" -> seasonal_level(p)
      [] scale = "normal" -> normal_level(p)
      [] scale = "default" -> default_level(p)
      [] scale = "improved" -> improved_significance(p)

\* the levels a scale names
ScaleLevels(scale) ==
    CASE scale = "seasonal" ->
           {"otsutstvuyut", "minimalnye", "neznachitelnye", "umerennye",
            "znachitelnye", "kriticheskie"}
      [] scale = "normal" ->
           {"otsutstvuyut", "minimalnye", "umerennye", "znachitelnye",
            "kriticheskie", "katastroficheskie"}
      [] scale = "default" ->
           {"minimalnye", "nizkie", "srednie", "vysokie", "kriticheskie"}
      [] scale = "improved" ->
           {"otsutstvuyut", "neznachitelnye", "umerennye", "znachitelnye",
            "kriticheskie"}

RequestLevel ==
    /\ pc = "idle"
    /\ \E scale \in Scales, k \in 0..(100 * PctGrain) :
          call' = [fn |-> "change_level", scale |-> scale, k |-> k]
    /\ pc' = "called"
    /\ UNCHANGED outcome

ClassifyLevel ==
    /\ pc = "called"
    /\ call.fn = "change_level"
    /\ outcome' = [kind |-> "return",
                   value |-> [change_level |->
                                change_level_of(call.scale, Rat(call.k, PctGrain))]]
    /\ pc' = "returned"
    /\ UNCHANGED call

NextLevels ==
    \/ RequestLevel
    \/ ClassifyLevel
    \/ Return

SpecLevels == Init /\ [][NextLevels]_vars

----------------------------------------------------------------------------
(* The output artifacts of comparisons of several territories: the files   *)
(* compare_images_advanced and detect_changes_aggressive write into the    *)
(* working directory, named after the second of the system clock.          *)

Territories == {"t1", "t2"}

\* seconds of the system clock the runs cover
MaxClock == 1

ArtifactFunctions == {"compare_images_advanced", "detect_changes_aggressive"}

\* f"changes_visualization_{int(time.time())}.jpg" of compare_images_advanced,
\* f"SUPER_AGGRESSIVE_{int(time.time())}.jpg" of _create_aggressive_visualization
visualization_path(fn, timestamp) ==
    [name |-> IF fn = "compare_images_advanced"
              THEN "changes_visualization" ELSE "SUPER_AGGRESSIVE",
     timestamp |-> timestamp]

\* f"aggressive_mask_{int(time.time())}.png"
mask_path(timestamp) == [name |-> "aggressive_mask", timestamp |-> timestamp]

\* cv2.imwrite(path, img): the file of that name is created or replaced
imwrite(files, path, img) ==
    { f \in files : f.path # path } \cup {[path |-> path, img |-> img]}

InitArtifacts ==
    /\ pc = [t \in Territories |-> "idle"]
    /\ call = [now |-> 0, fn |-> [t \in Territories |-> "none"]]
    /\ outcome = [files |-> {}, value |-> [t \in Territories |-> NoneValue]]

\* a comparison of territory t starts and runs up to its visualization
CallComparison ==
    \E t \in Territories, fn \in ArtifactFunctions :
        /\ pc[t] = "idle"
        /\ pc' = [pc EXCEPT ![t] = "called"]
        /\ call' = [call EXCEPT !.fn[t] = fn]
        /\ outcome' = [outcome EXCEPT !.value[t] = NoneValue]

\* the visualization is written under the name of the current second
SaveVisualization ==
    \E t \in Territories :
        /\ pc[t] = "called"
        /\ LET path == visualization_path(call.fn[t], call.now)
           IN  outcome' = [outcome EXCEPT
                   !.files = imwrite(outcome.files, path, t),
                   !.value[t] = [visualization_path |-> path]]
        /\ pc' = [pc EXCEPT ![t] =
                    IF call.fn[t] = "detect_changes_aggressive"
                    THEN "visualized" ELSE "returned"]
        /\ UNCHANGED call

\* detect_changes_aggressive names and writes its mask
SaveMask ==
    \E t \in Territories :
        /\ pc[t] = "visualized"
        /\ LET path == mask_path(call.now)
           IN  outcome' = [outcome EXCEPT
                   !.files = imwrite(outcome.files, path, t),
                   !.value[t] = [visualization_path |->
                                     outcome.value[t].visualization_path,
                                 mask_path |-> path]]
        /\ pc' = [pc EXCEPT ![t] = "returned"]
        /\ UNCHANGED call

\* the caller is done with the result of territory t
ReturnArtifacts ==
    \E t \in Territories :
        /\ pc[t] = "returned"
        /\ pc' = [pc EXCEPT ![t] = "idle"]
        /\ UNCHANGED <<call, outcome>>

\* the system clock reaches the next second
Tick ==
    /\ call.now < MaxClock
    /\ call' = [call EXCEPT !.now = call.now + 1]
    /\ UNCHANGED <<pc, outcome>>

NextArtifacts ==
    \/ CallComparison
    \/ SaveVisualization
    \/ SaveMask
    \/ ReturnArtifacts
    \/ Tick

SpecArtifacts == InitArtifacts /\ [][NextArtifacts]_vars

----------------------------------------------------------------------------
(* The image cache of GEEClient (gee_client.py): the files of cache_dir    *)
(* and the dict _cache_metadata. The dict is kept as the sequence of its   *)
(* keys in the order of their datetime.now() stamps, oldest first, which   *)
(* is the only use _clean_old_cache makes of the stamps.                   *)

\* max_cache_size of the constructor (100 by default)
max_cache_size == 3

\* number of distinct (latitude, longitude, date) requests
NumKeys == 5

CacheKeys == 1..NumKeys

\* image_size of get_satellite_image, at most 2048
ImageSizes == {2048}

\* self.cache_dir / f"{cache_key}.png"
plain_path(cache_key) == [key |-> cache_key, size |-> 0]

\* self.cache_dir / f"{cache_key}_{image_size}.png"
sized_path(cache_key, image_size) == [key |-> cache_key, size |-> image_size]

\* self._cache_metadata[cache_key] = datetime.now()
Stamp(metadata, cache_key) ==
    SelectSeq(metadata, LAMBDA k : k # cache_key) \o <<cache_key>>

\* the keys of the last n items of the dict sorted by stamp
Newest(metadata, n) ==
    { metadata[i] : i \in (Len(metadata) - n + 1)..Len(metadata) }

\* the keys of the first n items of the dict sorted by stamp
Oldest(metadata, n) == { metadata[i] : i \in 1..n }

\* to_remove = max(1, int(len(sorted_items) * 0.2))
to_remove(len) == IF len \div 5 > 1 THEN len \div 5 ELSE 1

clean_old_cache(cache) ==
    IF cache.metadata = <<>> THEN cache
    ELSE
    LET old == Oldest(cache.metadata, to_remove(Len(cache.metadata)))
    IN  [metadata |-> SelectSeq(cache.metadata, LAMBDA k : k \notin old),
         files |-> cache.files \ { plain_path(k) : k \in old }]

save_to_cache(cache, cache_key) ==
    LET cleaned == IF Len(cache.metadata) >= max_cache_size
                   THEN clean_old_cache(cache) ELSE cache
    IN  [metadata |-> Stamp(cleaned.metadata, cache_key),
         files |-> cleaned.files]

\* _get_cached_image: the path when the file exists, None otherwise
get_cached_image(cache, cache_key) ==
    IF plain_path(cache_key) \in cache.files
    THEN [cache |-> [metadata |-> Stamp(cache.metadata, cache_key),
                     files |-> cache.files],
          value |-> plain_path(cache_key)]
    ELSE [cache |-> cache, value |-> NoneValue]

\* get_satellite_image from the cache lookup on: the cached file, or the
\* download stored in cache_dir and entered into the cache; requested tells
\* whether self.requests.get was called
get_satellite_image(cache, cache_key, image_size, status_code) ==
    LET cached_image == get_cached_image(cache, cache_key)
    IN  IF cached_image.value # NoneValue
        THEN [kind |-> "return", value |-> cached_image.value,
              requested |-> FALSE,
              metadata |-> cached_image.cache.metadata,
              files |-> cached_image.cache.files]
        ELSE IF status_code # 200
        THEN [kind |-> "return", value |-> NoneValue,
              requested |-> TRUE,
              metadata |-> cache.metadata, files |-> cache.files]
        ELSE
        LET filepath == sized_path(cache_key, image_size)
            saved == save_to_cache(
                         [metadata |-> cache.metadata,
                          files |-> cache.files \cup {filepath}],
                         cache_key)
        IN  [kind |-> "return", value |-> filepath,
             requested |-> TRUE,
             metadata |-> saved.metadata, files |-> saved.files]

\* a new client on an empty cache directory
InitCache ==
    /\ pc = "idle"
    /\ call = [fn |-> "none"]
    /\ outcome = [kind |-> "none", metadata |-> <<>>, files |-> {}]

GetSatelliteImage ==
    \E cache_key \in CacheKeys, image_size \in ImageSizes,
       status_code \in {200, 500} :
        /\ call' = [fn |-> "get_satellite_image", cache_key |-> cache_key,
                    image_size |-> image_size, status_code |-> status_code]
        /\ outcome' = get_satellite_image(
                          [metadata |-> outcome.metadata,
                           files |-> outcome.files],
                          cache_key, image_size, status_code)
        /\ UNCHANGED pc

\* clear_cache: every file of cache_dir and every entry of the dict goes
ClearCache ==
    /\ call' = [fn |-> "clear_cache"]
    /\ outcome' = [kind |-> "return", value |-> NoneValue,
                   metadata |-> <<>>, files |-> {}]
    /\ UNCHANGED pc

NextCache ==
    \/ GetSatelliteImage
    \/ ClearCache

SpecCache == InitCache /\ [][NextCache]_vars

----------------------------------------------------------------------------
(* A monitoring run over all active territories: run_monitor_all of        *)
(* SatelliteMonitorApp (main.py) and check_all_locations of                *)
(* SatelliteMonitor (monitor.py), one loop pass per step.                  *)

\* number of active territories of a run, at most
MaxTerritories == 3

MonitorRuns == {"run_monitor_all", "check_all_locations"}

\* what a territory meets in run_monitor_all: the fetch fails, or it succeeds
\* and detect_and_save_changes runs on the two newest images
TerritoryCases ==
    { [fetch |-> "failed"],
      [fetch |-> "ok",
       detect |-> SavedCall(<<100, 100>>, <<100, 100>>, ReferenceStats,
                            2500, 5000, {}, TRUE, [present |-> FALSE])],
      [fetch |-> "ok",
       detect |-> [SavedCall(<<100, 100>>, <<100, 100>>, ReferenceStats,
                             2500, 5000, {}, TRUE, [present |-> FALSE])
                   EXCEPT !.improved.fault = "visualize"]],
      [fetch |-> "ok",
       detect |-> [SavedCall(<<100, 100>>, <<100, 100>>, ReferenceStats,
                             2500, 5000, {}, TRUE, [present |-> FALSE])
                   EXCEPT !.new_file = "corrupt"]] }

\* what a location meets in check_all_locations
LocationCases ==
    { [fn |-> "check_location", download |-> "failed"],
      [fn |-> "check_location", download |-> "raises"],
      [fn |-> "check_location", download |-> "ok", previous |-> TRUE,
       random |-> [add_changes |-> FALSE, draw |-> FALSE], written |-> FALSE,
       file |-> "ok", previous_file |-> "ok",
       size |-> <<resize_width, resize_height>>,
       changed |-> (resize_width * resize_height) \div 16,
       changed_drawn |-> (resize_width * resize_height) \div 16,
       colour |-> <<50, 120, 50>>] }

\* the territory lists of a run
TerritoryLists(cases) ==
    UNION { [1..n -> cases] : n \in 0..MaxTerritories }

\* one pass of the loop of run_monitor_all (main.py lines 576-611): "done"
\* when the pass ends, "raise" when an exception leaves it
monitor_territory(territory) ==
    IF territory.fetch # "ok" THEN "done"
    ELSE IF detect_and_save_changes(territory.detect).kind = "raise"
    THEN "raise" ELSE "done"

\* one pass of the loop of check_all_locations (monitor.py lines 145-156)
check_one_location(location) ==
    IF check_location(location).kind = "raise" THEN "raise" ELSE "done"

InitMonitor ==
    /\ pc = "idle"
    /\ call = [fn |-> "none"]
    /\ outcome = [kind |-> "none"]

StartRunMonitorAll ==
    /\ pc = "idle"
    /\ \E territories \in TerritoryLists(TerritoryCases) :
          call' = [fn |-> "run_monitor_all", territories |-> territories]
    /\ outcome' = [kind |-> "none", processed |-> {}, next |-> 1]
    /\ pc' = "running"

StartCheckAllLocations ==
    /\ pc = "idle"
    /\ \E locations \in TerritoryLists(LocationCases) :
          call' = [fn |-> "check_all_locations", territories |-> locations]
    /\ outcome' = [kind |-> "none", processed |-> {}, next |-> 1]
    /\ pc' = "running"

\* the loop takes the next territory
MonitorNext ==
    /\ pc = "running"
    /\ outcome.next <= Len(call.territories)
    /\ LET territory == call.territories[outcome.next]
           pass == IF call.fn = "run_monitor_all"
                   THEN monitor_territory(territory)
                   ELSE check_one_location(territory)
       IN  IF pass = "raise"
           THEN /\ outcome' = [outcome EXCEPT !.kind = "raise"]
                /\ pc' = "returned"
           ELSE /\ outcome' = [outcome EXCEPT
                                 !.processed = @ \cup {outcome.next},
                                 !.next = @ + 1]
                /\ pc' = "running"
    /\ UNCHANGED call

\* the loop is through and the run returns
EndRun ==
    /\ pc = "running"
    /\ outcome.next > Len(call.territories)
    /\ outcome' = [outcome EXCEPT !.kind = "return"]
    /\ pc' = "returned"
    /\ UNCHANGED call

NextMonitor ==
    \/ StartRunMonitorAll
    \/ StartCheckAllLocations
    \/ MonitorNext
    \/ EndRun
    \/ Return

SpecMonitor == InitMonitor /\ [][NextMonitor]_vars

----------------------------------------------------------------------------
(* The stored images of SatelliteMonitor (monitor.py, database.py,         *)
(* image_processor.py): which image check_location compares with which.    *)

Locations == {1, 2}

\* minutes of the system clock the checks cover
MaxMinute == 1

\* rows of the satellite_images table, at most
MaxImages == 3

\* f"map_{latitude:.4f}_{longitude:.4f}_{date.strftime('%Y%m%d_%H%M')}.jpg"
map_path(location, minute) ==
    [location |-> location, minute |-> minute, changed |-> FALSE]

\* f"{name}_changed{ext}" of add_random_map_changes
changed_path(image_path) == [image_path EXCEPT !.changed = TRUE]

\* download_satellite_image: the path of the file of this minute, which is
\* reused when it exists, or None when the download fails
download_satellite_image(files, location, minute, response) ==
    IF map_path(location, minute) \in files THEN map_path(location, minute)
    ELSE IF response = "ok" THEN map_path(location, minute)
    ELSE NoneValue

\* save_satellite_image: a new row, whose id is the next one
save_satellite_image(images, location_id, image_path) ==
    Append(images, [id |-> Len(images) + 1, location_id |-> location_id,
                    image_path |-> image_path])

\* get_previous_image: the row of the location with the latest capture_date
\* (rows are stamped in the order they are saved) whose id is not the
\* excluded one
get_previous_image(images, location_id, exclude_current) ==
    LET rows == { i \in DOMAIN images :
                    /\ images[i].location_id = location_id
                    /\ images[i].id # exclude_current }
    IN  IF rows = {} THEN NoneValue
        ELSE images[CHOOSE i \in rows : \A j \in rows : j <= i]

\* outcome of a check: the dict it returns, the rows and files it leaves, the
\* id of the row it saved first and the two images it compared
Stored(v, images, files, original_image_id, compared) ==
    [kind |-> "return", value |-> v, images |-> images, files |-> files,
     original_image_id |-> original_image_id, compared |-> compared]

\* check_location lines 33-87: fetch, save, find the previous image, pick
\* the current one and compare
check_stored_location(db, location, minute, response, changed) ==
    LET original_image_path ==
            download_satellite_image(db.files, location, minute, response)
    IN  IF original_image_path = NoneValue
        THEN Stored([changes_detected |-> FALSE,
                     error |-> "Image download failed"],
                    db.images, db.files, 0, <<>>)
        ELSE
        LET files1 == db.files \cup {original_image_path}
            images1 == save_satellite_image(db.images, location,
                                             original_image_path)
            original_image_id == Len(images1)
            previous_image == get_previous_image(images1, location,
                                                 original_image_id)
        IN  IF previous_image = NoneValue
            THEN Stored([changes_detected |-> FALSE, first_image |-> TRUE],
                        images1, files1, original_image_id, <<>>)
            ELSE IF changed
            THEN Stored([changes_detected |-> FALSE],
                        save_satellite_image(images1, location,
                            changed_path(original_image_path)),
                        files1 \cup {changed_path(original_image_path)},
                        original_image_id,
                        <<previous_image,
                          [id |-> original_image_id + 1,
                           location_id |-> location,
                           image_path |-> changed_path(original_image_path)]>>)
            ELSE Stored([changes_detected |-> FALSE],
                        images1, files1, original_image_id,
                        <<previous_image, images1[original_image_id]>>)

\* a new monitor on an empty database and an empty image directory
InitStored ==
    /\ pc = "idle"
    /\ call = [fn |-> "none", now |-> 0]
    /\ outcome = [kind |-> "none", images |-> <<>>, files |-> {}]

CheckStoredLocation ==
    /\ Len(outcome.images) + 2 <= MaxImages
    /\ \E location \in Locations, response \in {"ok", "failed"},
          changed \in BOOLEAN :
          /\ call' = [fn |-> "check_location", now |-> call.now,
                      location |-> location, response |-> response,
                      changed |-> changed,
                      earlier |-> outcome.images]
          /\ outcome' = check_stored_location(
                            [images |-> outcome.images,
                             files |-> outcome.files],
                            location, call.now, response, changed)
    /\ UNCHANGED pc

\* the system clock reaches the next minute
TickMinute ==
    /\ call.now < MaxMinute
    /\ call' = [call EXCEPT !.now = call.now + 1]
    /\ UNCHANGED <<pc, outcome>>

\* clear_database: every row goes, the image files stay
ClearDatabase ==
    /\ outcome.images # <<>>
    /\ call' = [fn |-> "clear_database", now |-> call.now]
    /\ outcome' = [kind |-> "return", images |-> <<>>,
                   files |-> outcome.files]
    /\ UNCHANGED pc

NextStored ==
    \/ CheckStoredLocation
    \/ TickMinute
    \/ ClearDatabase

SpecStored == InitStored /\ [][NextStored]_vars

----------------------------------------------------------------------------
(* Fetching an image for a territory in the application (main.py) and the  *)
(* images table of its database (database.py).                             *)

\* rows of the images table, at most
MaxRows == 4

\* add_image: a new row of the territory, the newest by capture date
add_image(images, territory_id, image_path) ==
    Append(images, [id |-> Len(images) + 1, territory_id |-> territory_id,
                    image_path |-> image_path])

\* the rows of a sequence in the opposite order
Newest_first(rows) == [i \in 1..Len(rows) |-> rows[Len(rows) + 1 - i]]

\* get_territory_images: WHERE territory_id = ? ORDER BY capture_date DESC
\* LIMIT ?
get_territory_images(images, territory_id, limit) ==
    LET rows == Newest_first(SelectSeq(images,
                    LAMBDA row : row.territory_id = territory_id))
    IN  SubSeq(rows, 1, IF Len(rows) < limit THEN Len(rows) ELSE limit)

\* main.py lines 397-443 of get_satellite_image: the image is saved and the
\* user is offered a check of the changes, or told it is the first image
app_get_satellite_image(images, territory_id, success, answer) ==
    IF ~success
    THEN [kind |-> "return", images |-> images, said |-> "error",
          detected |-> FALSE]
    ELSE
    LET images1 == add_image(images, territory_id, Len(images) + 1)
        previous_images == get_territory_images(images1, territory_id, 1)
    IN  IF Len(previous_images) > 1
        THEN [kind |-> "return", images |-> images1, said |-> "offer",
              detected |-> answer = "y"]
        ELSE [kind |-> "return", images |-> images1, said |-> "first_image",
              detected |-> FALSE]

\* the application on an empty database
InitApp ==
    /\ pc = "idle"
    /\ call = [fn |-> "none"]
    /\ outcome = [kind |-> "none", images |-> <<>>]

AppGetSatelliteImage ==
    /\ Len(outcome.images) < MaxRows
    /\ \E territory_id \in Territories, success \in BOOLEAN,
          answer \in {"y", "n"} :
          /\ call' = [fn |-> "get_satellite_image",
                      territory_id |-> territory_id, success |-> success,
                      answer |-> answer, earlier |-> outcome.images]
          /\ outcome' = app_get_satellite_image(outcome.images, territory_id,
                                                 success, answer)
    /\ UNCHANGED pc

NextApp == AppGetSatelliteImage

SpecApp == InitApp /\ [][NextApp]_vars

----------------------------------------------------------------------------
(* Properties.                                                             *)

Finished(f) == pc = "returned" /\ call.fn = f

\* the five functions that compare one pair of image files
ComparisonFunctions ==
    {"compare_images_advanced", "detect_changes", "detect_real_changes",
     "detect_with_force", "detect_changes_aggressive"}

\* one of the two image files of the call cannot be decoded
Undecodable ==
    /\ "file1" \in DOMAIN call
    /\ (call.file1 # "ok" \/ call.file2 # "ok")

\* the call went past loading: both files were decoded
Loaded ==
    /\ "file1" \in DOMAIN call
    /\ call.file1 = "ok" /\ call.file2 = "ok"

IsError(v) ==
    \/ "error" \in DOMAIN v
    \/ ("change_type" \in DOMAIN v /\ v.change_type = "error")

\* the percentage a result reports as its amount of change
ReportedPercentage(v) ==
    IF "final_percentage" \in DOMAIN v THEN v.final_percentage
    ELSE v.change_percentage

\* the percentage of the change mask the result counts
MeasuredPercentage(v) == Rat(100 * v.changed_pixels, v.total_pixels)

Count(seq, S) == Cardinality({ i \in DOMAIN seq : seq[i] \in S })

RECURSIVE CountRuns(_, _)
CountRuns(runs, S) ==
    IF runs = <<>> THEN 0
    ELSE Count(Head(runs).steps, S) + CountRuns(Tail(runs), S)

FuseSteps == {"fuse", "fuse_seasonal", "fuse_normal"}

C2_NoExceptionEscapes ==
    pc = "returned"
    => /\ outcome.kind = "return"
       /\ (/\ call.fn \in ComparisonFunctions \ {"detect_changes"}
           /\ Loaded
           /\ call.fault # "none")
          => IsError(outcome.value)

\* C3 (as stated): the change percentage a comparison reports is never raised
\* above the percentage of pixels it measured as changed, neither by a
\* configured target percentage, nor by enhancement factors, nor by a floor.
C3_NoForcedPercentage ==
    /\ (pc = "returned"
          /\ call.fn \in ComparisonFunctions
          /\ outcome.kind = "return"
          /\ "changed_pixels" \in DOMAIN outcome.value)
       => RLe(ReportedPercentage(outcome.value),
              MeasuredPercentage(outcome.value))
    /\ (Finished("detect_and_save_changes")
          /\ outcome.kind = "return"
          /\ "change_percentage" \in DOMAIN outcome.value
          /\ Len(outcome.runs) = 2)
       => RLe(outcome.value.change_percentage,
              Rat(100 * call.ultimate.changed,
                  call.old_size[1] * call.old_size[2]))

\* the percentages a returned result reports
ReportedPercentages(v) ==
    { v[f] : f \in DOMAIN v \cap {"change_percentage", "final_percentage",
                                  "real_change_percentage"} }
      \cup (IF "details" \in DOMAIN v /\ "change_percent" \in DOMAIN v.details
            THEN {v.details.change_percent} ELSE {})

\* C4: in every result a comparison returns, the change percentage lies in
\* the closed interval [0, 100].
C4_PercentageInRange ==
    (pc = "returned" /\ outcome.kind = "return")
    => \A p \in ReportedPercentages(outcome.value) :
          RLe(RInt(0), p) /\ RLe(p, RInt(100))

\* the product of the enhancement factors exceeded 100 and was cut to 100
C4_Witness ==
    /\ Finished("detect_changes_aggressive")
    /\ outcome.kind = "return"
    /\ "final_percentage" \in DOMAIN outcome.value
    /\ outcome.value.final_percentage = RInt(100)
    /\ RLt(outcome.value.base_percentage, RInt(50))
    /\ RGt(outcome.value.base_percentage, RInt(0))

\* C5 (as stated): in every non-error result the change percentage equals
\* 100 * changed pixels / total pixels, the total being width * height of the
\* working pair and the changed pixels those the same result reports.
C5_PercentageOfMask ==
    (pc = "returned"
       /\ call.fn \in ComparisonFunctions
       /\ outcome.kind = "return"
       /\ "changed_pixels" \in DOMAIN outcome.value)
    => /\ outcome.value.total_pixels = outcome.working[1] * outcome.working[2]
       /\ ReportedPercentage(outcome.value) = MeasuredPercentage(outcome.value)

BrightnessShift(a, b) == 2 * Max(a.b, b.b) > 3 * Min(a.b, b.b)
GreenShift(a, b) == a.g > 0 /\ (2 * b.g > 3 * a.g \/ 100 * b.g < 67 * a.g)
SaturationShift(a, b) == Abs(a.s - b.s) > 20
FourConditions(a, b) ==
    BrightnessShift(a, b) \/ GreenShift(a, b) \/ SaturationShift(a, b)

\* the seasonal assessment of compare_images_advanced ran to its end
AssessedByGee ==
    /\ Finished("compare_images_advanced")
    /\ "seasonal_data" \in DOMAIN outcome
    /\ call.fault # "seasonal"

\* detect_real_changes returned a result with its seasonal flag
AssessedByImproved ==
    /\ Finished("detect_real_changes")
    /\ outcome.kind = "return"
    /\ "is_seasonal" \in DOMAIN outcome.value

C8_BrightnessGuard ==
    (AssessedByGee /\ call.fault = "none")
    => /\ outcome.seasonal_data.brightness_ratio =
            IF call.stats1.b = 0 \/ call.stats2.b = 0
            THEN [kind |-> "fin", v |-> RInt(1)]
            ELSE [kind |-> "fin",
                  v |-> Rat(Max(call.stats1.b, call.stats2.b),
                            Min(call.stats1.b, call.stats2.b))]
       /\ ~IsError(outcome.value)

\* C9 (as stated): each comparison performs exactly one seasonal assessment
\* and then exactly one of the two fusion algorithms, the seasonal one when
\* is_seasonal is true and the normal one otherwise, and produces its one
\* result from that single pass.
C9_SinglePass ==
    /\ (Finished("compare_images_advanced")
          /\ outcome.kind = "return" /\ ~IsError(outcome.value))
       => /\ Count(outcome.steps, {"assess"}) = 1
          /\ Count(outcome.steps, FuseSteps) = 1
          /\ outcome.steps[2] = "assess"
          /\ outcome.steps[3] = IF outcome.value.is_seasonal
                                THEN "fuse_seasonal" ELSE "fuse_normal"
    /\ (Finished("detect_and_save_changes")
          /\ outcome.kind = "return"
          /\ "change_percentage" \in DOMAIN outcome.value)
       => /\ Len(outcome.runs) = 1
          /\ CountRuns(outcome.runs, {"assess"}) = 1
          /\ CountRuns(outcome.runs, FuseSteps) = 1

\* the order of severity of the level names
Severity(level) ==
    CASE level = "otsutstvuyut" -> 0
      [] level = "minimalnye" -> 1
      [] level \in {"neznachitelnye", "nizkie"} -> 2
      [] level \in {"umerennye", "srednie"} -> 3
      [] level \in {"znachitelnye", "vysokie"} -> 4
      [] level = "kriticheskie" -> 5
      [] level = "katastroficheskie" -> 6
      [] OTHER -> 0 - 1

\* C10: on each severity scale every percentage in [0, 100] is assigned
\* exactly one change_level of the scale; the levels never decrease as the
\* percentage grows, so their ranges do not overlap, and every level of the
\* scale is the level of some percentage, so the ranges leave no gap.
C10_Partition ==
    Finished("change_level")
    => /\ outcome.value.change_level \in ScaleLevels(call.scale)
       /\ \A j \in 0..call.k :
            Severity(change_level_of(call.scale, Rat(j, PctGrain)))
              <= Severity(outcome.value.change_level)
       /\ call.k = 100 * PctGrain
          => \A level \in ScaleLevels(call.scale) :
               \E j \in 0..call.k :
                 change_level_of(call.scale, Rat(j, PctGrain)) = level

\* a percentage on a threshold belongs to the range above it
C10_Witness ==
    /\ Finished("change_level")
    /\ call.scale = "normal"
    /\ call.k = 20 * PctGrain
    /\ outcome.value.change_level = "katastroficheskie"

\* the level names in the words of the specification
English(level) ==
    CASE level = "otsutstvuyut" -> "none"
      [] level = "minimalnye" -> "minimal"
      [] level \in {"neznachitelnye", "nizkie"} -> "low"
      [] level \in {"umerennye", "srednie"} -> "moderate"
      [] level \in {"znachitelnye", "vysokie"} -> "significant"
      [] level = "kriticheskie" -> "critical"
      [] level = "katastroficheskie" -> "catastrophic"
      [] OTHER -> "unknown"

\* the percentage of a call of the severity scales
LevelPercentage == Rat(call.k, PctGrain)

\* C11 (as stated): on the non-seasonal scale the level is none below 0.5,
\* minimal below 2, low below 5, moderate below 10, significant below 20 and
\* critical from 20 on, so 0, 0.4, 1.9, 4.9, 9.9, 19.9 and 25 give none, none,
\* minimal, low, moderate, significant and critical.
C11_NormalScale ==
    (Finished("change_level") /\ call.scale \in {"normal", "improved"})
    => English(outcome.value.change_level) =
         IF RLt(LevelPercentage, Rat(1, 2)) THEN "none"
         ELSE IF RLt(LevelPercentage, RInt(2)) THEN "minimal"
         ELSE IF RLt(LevelPercentage, RInt(5)) THEN "low"
         ELSE IF RLt(LevelPercentage, RInt(10)) THEN "moderate"
         ELSE IF RLt(LevelPercentage, RInt(20)) THEN "significant"
         ELSE "critical"

\* C11 (amended): on GEEClient's non-seasonal scale the level is none below
\* 0.5, minimal below 2, moderate below 5, significant below 10, critical
\* below 20 and catastrophic from 20 on, so 0, 0.4, 1.9, 4.9, 9.9, 19.9 and 25
\* give none, none, minimal, moderate, significant, critical and catastrophic;
\* detect_real_changes' significance is none up to 1, low above 1, moderate
\* above 5, significant above 15 and critical above 30.
C11_NormalScales ==
    /\ (Finished("change_level") /\ call.scale = "normal")
       => English(outcome.value.change_level) =
            IF RLt(LevelPercentage, Rat(1, 2)) THEN "none"
            ELSE IF RLt(LevelPercentage, RInt(2)) THEN "minimal"
            ELSE IF RLt(LevelPercentage, RInt(5)) THEN "moderate"
            ELSE IF RLt(LevelPercentage, RInt(10)) THEN "significant"
            ELSE IF RLt(LevelPercentage, RInt(20)) THEN "critical"
            ELSE "catastrophic"
    /\ (Finished("change_level") /\ call.scale = "improved")
       => English(outcome.value.change_level) =
            IF RLe(LevelPercentage, RInt(1)) THEN "none"
            ELSE IF RLe(LevelPercentage, RInt(5)) THEN "low"
            ELSE IF RLe(LevelPercentage, RInt(15)) THEN "moderate"
            ELSE IF RLe(LevelPercentage, RInt(30)) THEN "significant"
            ELSE "critical"

\* 4.9 % on the non-seasonal scale is moderate
C11_Witness ==
    /\ Finished("change_level")
    /\ call.scale = "normal"
    /\ LevelPercentage = Rat(49, 10)
    /\ outcome.value.change_level = "umerennye"

\* the type the largest of the three extractor areas names, vegetation before
\* earthworks before structural when areas tie, unknown when all are empty
LargestAreaType(areas) ==
    LET largest == Max(areas[1], Max(areas[2], areas[3]))
    IN  IF largest = 0 THEN "neizvestno"
        ELSE IF areas[1] = largest THEN "rastitelnost"
        ELSE IF areas[2] = largest THEN "zemlyanye_raboty"
        ELSE "strukturnye"

\* C12 (as stated): change_type is the category whose extractor contributed
\* the largest mask area, and when categories tie for the largest area the
\* type is chosen in the order vegetation, earthworks, structural, unknown.
C12_LargestAreaWins ==
    AssessedByImproved
    => outcome.value.change_type = LargestAreaType(call.areas)

\* compare_images_advanced found the pair seasonal and none of its regions
\* larger than 2 % of the working area
SeasonalAndQuiet ==
    /\ Finished("compare_images_advanced")
    /\ outcome.kind = "return"
    /\ ~IsError(outcome.value)
    /\ outcome.value.is_seasonal
    /\ \A a \in call.regions :
         100 * a <= 2 * outcome.working[1] * outcome.working[2]

----------------------------------------------------------------------------
\* the change types that name a vegetation, earthworks or structural change
SubstantiveTypes ==
    {"vegetation_change", "construction", "building_change", "water_change",
     "MASSHTABNAYA_VYRUBKA_LESA", "znachitelnaya_vyrubka_lesa", "vyrubka_lesa",
     "chastichnaya_vyrubka", "izmeneniya_rastitelnosti",
     "rastitelnost", "zemlyanye_raboty", "strukturnye"}

\* lower edge of the "minimal" bucket of the normal scale, in percent
MinimalThreshold == Rat(1, 2)

\* the call compares an image file with itself
SameImage == "same" \in DOMAIN call /\ call.same

\* C14: comparing a valid image with itself returns a result whose change
\* percentage is below the threshold of the minimal bucket and whose change
\* type is none of vegetation, earthworks or structural.
C14_Identity ==
    (pc = "returned" /\ SameImage)
    => /\ outcome.kind = "return"
       /\ \A p \in ReportedPercentages(outcome.value) :
             RLt(p, MinimalThreshold)
       /\ outcome.value.change_type \notin SubstantiveTypes

\* the part of C14 the code keeps: ImageProcessor.detect_changes of an image
\* with itself reports no_changes with score 0
C14_IdentityImageProcessor ==
    (Finished("detect_changes") /\ SameImage)
    => /\ outcome.kind = "return"
       /\ outcome.value.change_type = "no_changes"
       /\ outcome.value.change_score = RInt(0)

----------------------------------------------------------------------------
\* the percentage detect_with_force reports for the finished call when the
\* change mask holds `changed` pixels and everything else stays as it is
ForcedPercentageAt(changed) ==
    detect_with_force([call EXCEPT !.changed = changed],
                      call.force_percentage).value.change_percentage

\* a detect_with_force call that went through all its stages
ForcedAndReturned ==
    /\ Finished("detect_with_force")
    /\ outcome.kind = "return"
    /\ ~IsError(outcome.value)

\* C15: the reported change percentage is non-decreasing in the changed
\* fraction: a pair with fewer changed pixels (a smaller fraction of the
\* vegetation replaced by bare earth) never reports a larger percentage than
\* the pair of the call.
C15_Monotone ==
    ForcedAndReturned
    => \A fewer \in MaskCounts(outcome.value.total_pixels) :
          fewer <= call.changed
          => RLe(ForcedPercentageAt(fewer), outcome.value.change_percentage)

----------------------------------------------------------------------------
\* a comparison that stopped at loading: it ran no other stage
StoppedAtLoad(steps) == steps \in {<<>>, <<"load">>}

\* in a single comparison function a failed load is the end of the call:
\* no stage follows it and no stage runs twice
C16_LoadFailureTerminal ==
    (pc = "returned" /\ call.fn \in ComparisonFunctions /\ Undecodable)
    => StoppedAtLoad(outcome.steps)

\* C16: a comparison has no retry: once loading of an image fails, the call
\* ends with the error result and attempts no further comparison method.
C16_NoRetry ==
    /\ C16_LoadFailureTerminal
    /\ Finished("detect_and_save_changes")
       => \A i \in DOMAIN outcome.runs :
             StoppedAtLoad(outcome.runs[i].steps)
             => /\ i = Len(outcome.runs)
                /\ outcome.kind = "return"
                /\ outcome.value = NoneValue

----------------------------------------------------------------------------
\* C17: given identical input images and identical settings a comparison
\* always produces the same result: no random choice influences which images
\* are compared or what change is detected.
C17_Deterministic ==
    (Finished("check_location") /\ "random" \in DOMAIN call)
    => \A r \in RandomDraws :
          LET other == check_location([call EXCEPT !.random = r])
          IN  /\ other.current = outcome.current
              /\ other.value = outcome.value

----------------------------------------------------------------------------
\* the threshold in force for a call of detect_and_save_changes: the
\* configured CHANGE_THRESHOLD, or 5 percent when none is configured
ThresholdOf(email_config) ==
    IF email_config.present /\ "CHANGE_THRESHOLD" \in DOMAIN email_config
    THEN email_config.CHANGE_THRESHOLD
    ELSE RInt(5)

\* the alerts among the effects of the finished call
Alerts ==
    { i \in DOMAIN outcome.effects :
        outcome.effects[i].op \in {"send_notification",
                                   "send_change_notification"} }

\* C19: an alert is sent for a comparison only when its change percentage
\* exceeds the configured threshold; a result at or below the threshold
\* produces no alert.
C19_AlertOverThreshold ==
    /\ Finished("detect_and_save_changes")
       => \A i \in Alerts :
             /\ outcome.effects[i].change_percentage
                  = outcome.value.change_percentage
             /\ RGt(outcome.value.change_percentage,
                    ThresholdOf(call.email_config))
    /\ Finished("check_location")
       => \A i \in Alerts :
             /\ outcome.effects[i].change_score = outcome.value.change_score
             /\ RGt(outcome.value.change_score, CHANGE_THRESHOLD)

\* a saved comparison exactly at the configured threshold, and no alert
C19_Witness ==
    /\ Finished("detect_and_save_changes")
    /\ "send_notification" \in DOMAIN call
    /\ call.send_notification
    /\ call.email_config.present
    /\ "CHANGE_THRESHOLD" \in DOMAIN call.email_config
    /\ call.email_config.EMAIL_ENABLED
    /\ outcome.value # NoneValue
    /\ outcome.value.change_percentage = call.email_config.CHANGE_THRESHOLD
    /\ Alerts = {}

----------------------------------------------------------------------------
\* the files the result of territory t names
ArtifactsOf(t) ==
    { outcome.value[t][k] : k \in DOMAIN outcome.value[t]
                                   \cap {"visualization_path", "mask_path"} }

\* C18: a comparison call shares no state with other comparison calls: two
\* comparisons of different territories, concurrent or within the same
\* second, cannot overwrite each other's output artifacts, so the files a
\* returned result names hold the pictures of its own territory.
C18_Independent ==
    \A t \in Territories :
        pc[t] = "returned"
        => \A path \in ArtifactsOf(t) :
              [path |-> path, img |-> t] \in outcome.files

----------------------------------------------------------------------------
\* the dict of the cache never holds more than max_cache_size keys
C20_MetadataBounded == Len(outcome.metadata) <= max_cache_size

\* C20: after any sequence of cache lookups and cache saves the image cache
\* holds at most max_cache_size entries: files in cache_dir and keys in the
\* dict.
C20_CacheBounded ==
    /\ C20_MetadataBounded
    /\ Cardinality(outcome.files) <= max_cache_size

----------------------------------------------------------------------------
\* the keys the dict of the cache holds
KeysOf(metadata) == { metadata[i] : i \in DOMAIN metadata }

\* the place of a key among the stamps, oldest first
PlaceOf(metadata, cache_key) ==
    CHOOSE i \in DOMAIN metadata : metadata[i] = cache_key

\* C21: when the cache is full and a new entry is saved, the entries evicted
\* are the least recently used (saved or hit) ones: no entry that stays was
\* used less recently than an entry that is evicted.
C21_EvictsLeastRecent ==
    [][ \A gone \in KeysOf(outcome.metadata) \ KeysOf(outcome'.metadata) :
          \A kept \in KeysOf(outcome.metadata) \cap KeysOf(outcome'.metadata) :
             PlaceOf(outcome.metadata, gone) < PlaceOf(outcome.metadata, kept)
      ]_vars

\* a full cache has evicted a key: its download is on disk, its entry gone,
\* and keys saved after it are still held
C21_Witness ==
    /\ Len(outcome.metadata) = max_cache_size
    /\ call.fn = "get_satellite_image"
    /\ \E k \in CacheKeys \ KeysOf(outcome.metadata) :
          sized_path(k, call.image_size) \in outcome.files

----------------------------------------------------------------------------
\* detect_and_save_changes went on to self.gee.compare_images
FellBack ==
    /\ Finished("detect_and_save_changes")
    /\ \E i \in DOMAIN outcome.runs : outcome.runs[i].fn = "compare_images"

\* what the fallback comparison of the finished call returned
FallbackResult == compare_images(FallbackCall(call))

\* the change records among the effects of the finished call
ChangeRecords ==
    { i \in DOMAIN outcome.effects : outcome.effects[i].op = "add_change" }

\* C22: when the primary comparison does not succeed and the fallback
\* comparison of the GEE client completes without error, the fallback's
\* change_percentage is recorded as a change and returned.
C22_FallbackRecorded ==
    (FellBack /\ FallbackResult.kind = "return"
              /\ ~IsError(FallbackResult.value))
    => /\ outcome.kind = "return"
       /\ outcome.value # NoneValue
       /\ outcome.value.change_percentage
            = FallbackResult.value.change_percentage
       /\ ChangeRecords # {}

----------------------------------------------------------------------------
\* a monitoring run has ended, by returning or by an exception
RunEnded == pc = "returned" /\ call.fn \in MonitorRuns

\* C23: in a monitoring run over all active territories a failure while
\* fetching or comparing the images of one territory does not stop the run:
\* every active territory has been processed when the run ends.
C23_RunCoversAll ==
    RunEnded
    => /\ outcome.kind = "return"
       /\ outcome.processed = DOMAIN call.territories

\* check_all_locations does go through every location whatever fails
C23_CheckAllLocationsCoversAll ==
    (RunEnded /\ call.fn = "check_all_locations")
    => /\ outcome.kind = "return"
       /\ outcome.processed = DOMAIN call.territories

----------------------------------------------------------------------------
\* what the two comparison methods of the finished call return
ImprovedResult == detect_changes_improved(ImprovedCall(call))
ForestResult == detect_forest_changes(UltimateCall(call))

\* the comparison of the finished call reports an error
ReportsError ==
    /\ ImprovedResult.kind = "return"
    /\ \/ "error" \in DOMAIN ImprovedResult.value
       \/ ForestResult.kind = "raise"
       \/ "error" \in DOMAIN ForestResult.value

\* nothing to compare, or no successful comparison
NoComparison ==
    \/ call.images < 2
    \/ call.new_file = "missing" \/ call.old_file = "missing"
    \/ ReportsError

\* C24: detect_and_save_changes writes a change record only after a
\* successful comparison: with fewer than two images, a missing image file
\* or a comparison that reports an error it returns None, adds no change
\* record and sends no notification; a notification only follows a record.
C24_RecordOnlyOnSuccess ==
    Finished("detect_and_save_changes")
    => /\ NoComparison => /\ outcome.kind = "return"
                          /\ outcome.value = NoneValue
                          /\ outcome.effects = <<>>
       /\ outcome.effects # <<>>
            => /\ outcome.value # NoneValue
               /\ outcome.effects[1].op = "add_change"
               /\ ChangeRecords = {1}

\* detect_forest_changes raised after a good first comparison: nothing saved
C24_Witness ==
    /\ Finished("detect_and_save_changes")
    /\ call.images = 2
    /\ ImprovedResult.kind = "return"
    /\ "error" \notin DOMAIN ImprovedResult.value
    /\ ForestResult.kind = "raise"
    /\ outcome.value = NoneValue
    /\ outcome.effects = <<>>

----------------------------------------------------------------------------
\* a check of a location has run to its end on the stored images
Checked25 == call.fn = "check_location" /\ "earlier" \in DOMAIN call

\* the rows the location had before the check
EarlierRows ==
    { i \in DOMAIN call.earlier :
        call.earlier[i].location_id = call.location }

\* C25: check_location compares the newly saved image only with an earlier
\* stored image of the same location, never with the image saved in the same
\* check nor with the same image file; with no earlier image it returns
\* first_image = true and compares nothing.
C25_ComparesEarlierImage ==
    (Checked25 /\ "error" \notin DOMAIN outcome.value)
    => IF EarlierRows = {}
       THEN /\ "first_image" \in DOMAIN outcome.value
            /\ outcome.compared = <<>>
       ELSE /\ "first_image" \notin DOMAIN outcome.value
            /\ outcome.compared[1].id \in EarlierRows
            /\ outcome.compared[1].id # outcome.original_image_id
            /\ outcome.compared[1].id # outcome.compared[2].id
            /\ outcome.compared[1].image_path # outcome.compared[2].image_path

\* the part of C25 about the rows: the previous image is an earlier row of the
\* same location, and first_image is returned exactly when there is none
C25_ComparesEarlierRow ==
    (Checked25 /\ "error" \notin DOMAIN outcome.value)
    => IF EarlierRows = {}
       THEN /\ "first_image" \in DOMAIN outcome.value
            /\ outcome.compared = <<>>
       ELSE /\ "first_image" \notin DOMAIN outcome.value
            /\ outcome.compared[1].id \in EarlierRows
            /\ outcome.compared[1].id # outcome.original_image_id
            /\ outcome.compared[1].id # outcome.compared[2].id

----------------------------------------------------------------------------
\* the call runs with a loaded configuration whose EMAIL_ENABLED is false
NotificationsDisabled ==
    /\ Finished("detect_and_save_changes")
    /\ "email_config" \in DOMAIN call
    /\ call.email_config.present
    /\ ~call.email_config.EMAIL_ENABLED

\* C26: when email notifications are disabled in the loaded configuration,
\* _should_send_notification returns false for every change percentage, and
\* the call sends no notification.
C26_DisabledNeverSends ==
    NotificationsDisabled
    => /\ \A k \in 0..(100 * PctGrain) :
             ~should_send_notification(call.email_config, Rat(k, PctGrain))
       /\ Alerts = {}

----------------------------------------------------------------------------
\* C27: after get_satellite_image has downloaded and cached an image for
\* given coordinates and date, a later request for the same coordinates and
\* date is served from the cache, without a new download.
C27_ServedFromCache ==
    [][ (/\ call'.fn = "get_satellite_image"
         /\ call'.cache_key \in KeysOf(outcome.metadata)
         /\ sized_path(call'.cache_key, call'.image_size) \in outcome.files)
        => /\ ~outcome'.requested
           /\ outcome'.value # NoneValue
      ]_vars

----------------------------------------------------------------------------
\* the arguments of a comparison are the older image, then the newer one
OlderThenNewer(arguments) ==
    /\ arguments.size1 = call.old_size /\ arguments.size2 = call.new_size
    /\ "stats1" \in DOMAIN arguments
         => /\ arguments.stats1 = call.old_stats
            /\ arguments.stats2 = call.new_stats

\* the comparison methods the finished call invoked
Invoked(fn) == \E i \in DOMAIN outcome.runs : outcome.runs[i].fn = fn

\* C28: every comparison method detect_and_save_changes invokes, the
\* fallback included, receives the older image as its first (before) input
\* and the newer image as its second (after) input.
C28_OlderImageFirst ==
    Finished("detect_and_save_changes")
    => /\ Invoked("detect_changes_improved")
            => OlderThenNewer(ImprovedCall(call))
       /\ Invoked("detect_forest_changes")
            => OlderThenNewer(UltimateCall(call))
       /\ Invoked("compare_images")
            => OlderThenNewer(FallbackCall(call))

\* the two primary methods do get the older image first
C28_PrimaryOlderImageFirst ==
    Finished("detect_and_save_changes")
    => /\ Invoked("detect_changes_improved")
            => OlderThenNewer(ImprovedCall(call))
       /\ Invoked("detect_forest_changes")
            => OlderThenNewer(UltimateCall(call))

----------------------------------------------------------------------------
\* an image was fetched and saved for a territory
ImageSaved ==
    /\ call.fn = "get_satellite_image"
    /\ "earlier" \in DOMAIN call
    /\ call.success

\* the territory had an image before this one
HadEarlierImage ==
    \E i \in DOMAIN call.earlier :
        call.earlier[i].territory_id = call.territory_id

\* C29: after a newly fetched image is saved for a territory that already
\* had an earlier image, the application offers to check the changes against
\* the previous image; it reports "first image for this territory" only
\* when the territory had no earlier image.
C29_OffersCheck ==
    ImageSaved
    => outcome.said = IF HadEarlierImage THEN "offer" ELSE "first_image"

----------------------------------------------------------------------------
\* the seasonal analysis of the finished comparison failed
SeasonalAnalysisFailed ==
    /\ Finished("compare_images_advanced")
    /\ Loaded
    /\ call.cv2
    /\ call.fault = "seasonal"

\* C30: if the seasonal analysis itself fails, the comparison treats the pair
\* as non-seasonal (is_seasonal false, brightness_ratio = green_ratio = 1)
\* and still completes with the normal algorithm, returning a non-error
\* result.
C30_SeasonalFailureTolerated ==
    SeasonalAnalysisFailed
    => /\ outcome.kind = "return"
       /\ ~IsError(outcome.value)
       /\ ~outcome.value.is_seasonal
       /\ outcome.value.brightness_ratio = [kind |-> "fin", v |-> RInt(1)]
       /\ outcome.value.green_ratio = [kind |-> "fin", v |-> RInt(1)]
       /\ Count(outcome.steps, {"fuse_normal"}) = 1

\* the fallback of the analysis is what C30 says: non-seasonal, ratios 1
C30_SeasonalFallback ==
    SeasonalAnalysisFailed
    => /\ ~outcome.seasonal_data.is_seasonal
       /\ outcome.seasonal_data.brightness_ratio
            = [kind |-> "fin", v |-> RInt(1)]
       /\ outcome.seasonal_data.green_ratio
            = [kind |-> "fin", v |-> RInt(1)]

====
